---- MODULE Spec2Model ----
\* Event-streaming subsystem of watch-tower: EventPublisher (events/publisher.py),
\* ConsumerGroup (events/consumer.py) and the Redis stream commands they issue
\* (XADD, XGROUP CREATE, XREADGROUP ">", XACK, XPENDING, XCLAIM).  The consumers
\* of the model are ConsumerGroup objects of one group name, each in its own
\* process, sharing the broker.
EXTENDS Integers, Sequences, FiniteSets, TLC

\* ---------------------------------------------------------------- bounds
MaxMsgs == 2        \* entries ever appended (entry ids are 1..MaxMsgs)
MaxHandlers == 2    \* register_handler calls per ConsumerGroup
MaxDeliveries == 2  \* delivery count up to which an entry is claimed
BatchSize == 2      \* count= passed to XREADGROUP (settings.event_batch_size)
MaxObjects == 3     \* ConsumerGroup objects an EventConsumer constructs
MaxBatch == 3       \* length of the list passed to publish_batch

Consumers == {"c1", "c2"}
Types == {"T1", "T2"}          \* members of EventType
TypeOrder == <<"T1", "T2">>    \* order of the streams dict built by consume()
LoopTypes == {"T1"}            \* the types published and consumed under Spec
NoTag == "none"                \* a record whose event_type is missing or unknown
Reps == {"member", "value"}    \* an event holds event_type as EventType member or as its value
StreamPrefix == "watch_tower:events"   \* settings.event_stream_prefix
NoGroup == 0 - 1               \* the group does not exist on the stream
Ids == 1..MaxMsgs

VARIABLES
    decodeResponses, \* settings.redis_decode_responses of the connection pool
    pyFormat,        \* what format() of an EventType member yields: "value" or "name"
    stream,          \* broker: stream name -> sequence of entries [id, tag]
    cursor,          \* broker: last-delivered id of the group per stream, or NoGroup
    pel,             \* broker: consumer -> ids pending for it in the group
    dcount,          \* broker: id -> delivery count of its pending entry
    stale,           \* broker: id -> idle time of its pending entry exceeds min_idle_ms
    handlers,        \* ConsumerGroup.handlers: consumer -> type -> list of handlers
    running,         \* ConsumerGroup.running
    pc,              \* where consume() of the consumer is suspended
    subs,            \* the streams dict of the running consume()
    batch,           \* the messages returned by the last XREADGROUP, flattened
    idx,             \* position in batch of the message being processed
    hidx,            \* position in the handler list of the handler being awaited
    errs,            \* handlers that raised for the message being processed
    log,             \* what the loop has done for its last batch, in order
    reads,           \* id -> number of XREADGROUP replies that carried it
    acked,           \* ids acknowledged by XACK
    stopCalled,      \* stop() has been called on the consumer
    stopIdx,         \* idx of the consumer when stop() was called
    cancelled,       \* the consume task has been cancelled
    claimPc,         \* where claim_pending_messages of the consumer is suspended
    claimIds,        \* old_messages of the running claim_pending_messages
    xpendingApi,     \* what client.xpending(stream, group, count=100) does
    pubIn,           \* publish_batch: the events list it was called with
    pubPos,          \* publish_batch: number of publish() calls that returned
    pubIds,          \* publish_batch: entry_ids
    pubPc,           \* publish_batch: idle, running, returned or raised
    xadds,           \* publish_batch: XADD calls issued
    xgroup,          \* last create_consumer_group call: broker reply and outcome
    codec,           \* one record field on its way through serializer and decoder
    ec,              \* the EventConsumer: its groups dict and its start_all call
    pend,            \* last get_pending_messages / claim_pending_messages call: its outcome
    info,            \* last get_stream_info call: its outcome
    app              \* the application's lifespan: its shutdown and the connection pool

vars == <<decodeResponses, pyFormat, stream, cursor, pel, dcount, stale, handlers,
          running, pc, subs, batch, idx, hidx, errs, log, reads, acked,
          stopCalled, stopIdx, cancelled, claimPc, claimIds, xpendingApi,
          pubIn, pubPos, pubIds, pubPc, xadds, xgroup, codec, ec, pend, info, app>>

brokerVars == <<stream, cursor, pel, dcount, stale, acked>>
stopVars == <<stopCalled, stopIdx>>
loopVars == <<running, pc, subs, batch, idx, hidx, errs, log, reads, cancelled>>
claimVars == <<claimPc, claimIds, xpendingApi, pend>>
appVars == <<info, app>>
pubVars == <<pubIn, pubPos, pubIds, pubPc, xadds, xgroup, codec>>

\* ---------------------------------------------------------------- helpers
RECURSIVE SeqSum(_)
SeqSum(s) == IF s = <<>> THEN 0 ELSE Head(s) + SeqSum(Tail(s))

RECURSIVE Concat(_)
Concat(ss) == IF ss = <<>> THEN <<>> ELSE Head(ss) \o Concat(Tail(ss))

Range(s) == {s[i] : i \in 1..Len(s)}

\* str(x) of an EventType member x: class EventType(str, Enum) keeps
\* Enum.__str__, "EventType.NAME"; str() of the value is the value itself
MemberText(T) == "EventType." \o T
StrType(r, T) == IF r = "member" THEN MemberText(T) ELSE T

\* f"{x}" of an event type held as r: for the value, the value; for a
\* member, what format() of a str-mixin Enum yields on the interpreter, the
\* value (str.__format__, up to Python 3.10) or str(x) (from Python 3.11)
FormatType(r, T) == IF r = "member" /\ pyFormat = "name" THEN MemberText(T) ELSE T

Texts == Types \cup {MemberText(T) : T \in Types}

\* _get_stream_name: f"{self.stream_prefix}:{event_type}", of publisher and
\* consumer alike, applied to the text the f-string makes of event_type
GetStreamName(text) == StreamPrefix \o ":" \o text
StreamNames == {GetStreamName(x) : x \in Texts}

\* the stream consume() reads for T: its event_types are EventType members
ConsumerStream(T) == GetStreamName(FormatType("member", T))
\* the stream create_consumer_group is called for: main.py passes event_type.value
GroupStream(T) == GetStreamName(FormatType("value", T))

Entries == UNION {Range(stream[n]) : n \in StreamNames}
Appended == {e.id : e \in Entries}
EntryOf(m) == CHOOSE e \in Entries : e.id = m
StreamOf(m) == CHOOSE T \in Types : \E e \in Range(stream[ConsumerStream(T)]) : e.id = m
LastId(T) ==
    IF stream[GroupStream(T)] = <<>> THEN 0
    ELSE stream[GroupStream(T)][Len(stream[GroupStream(T)])].id
Pending == UNION {pel[c] : c \in Consumers}

\* _deserialize_event followed by EventType(event_data.get('event_type')):
\* the resolved type, or NoTag when the lookup raises.  Without
\* decode_responses the record's keys are bytes, so the str key 'event_type'
\* is absent from the result.
DeserializeType(m) ==
    IF decodeResponses /\ EntryOf(m).tag \in Types THEN EntryOf(m).tag ELSE NoTag

\* self.handlers.get(event_type, []) for the message
HandlersFor(c, m) ==
    IF DeserializeType(m) = NoTag THEN <<>> ELSE handlers[c][DeserializeType(m)]

NumRegistered(c) == SeqSum([i \in 1..Len(TypeOrder) |-> Len(handlers[c][TypeOrder[i]])])

\* ---------------------------------------------------------------- setup
\* nothing published, no group, no handler, nothing started
Setup ==
    /\ decodeResponses \in BOOLEAN
    /\ stream = [n \in StreamNames |-> <<>>]
    /\ cursor = [n \in StreamNames |-> NoGroup]
    /\ pel = [c \in Consumers |-> {}]
    /\ dcount = [m \in Ids |-> 0]
    /\ stale = [m \in Ids |-> FALSE]
    /\ handlers = [c \in Consumers |-> [T \in Types |-> <<>>]]
    /\ running = [c \in Consumers |-> FALSE]
    /\ pc = [c \in Consumers |-> "new"]
    /\ subs = [c \in Consumers |-> {}]
    /\ batch = [c \in Consumers |-> <<>>]
    /\ idx = [c \in Consumers |-> 0]
    /\ hidx = [c \in Consumers |-> 0]
    /\ errs = [c \in Consumers |-> {}]
    /\ log = [c \in Consumers |-> <<>>]
    /\ reads = [m \in Ids |-> 0]
    /\ acked = {}
    /\ stopCalled = [c \in Consumers |-> FALSE]
    /\ stopIdx = [c \in Consumers |-> 0]
    /\ cancelled = [c \in Consumers |-> FALSE]
    /\ claimPc = [c \in Consumers |-> "idle"]
    /\ claimIds = [c \in Consumers |-> {}]
    /\ xpendingApi = "unknown"
    /\ pubIn = <<>>
    /\ pubPos = 0
    /\ pubIds = <<>>
    /\ pubPc = "idle"
    /\ xadds = 0
    /\ xgroup = [reply |-> "none", ret |-> "none"]
    /\ codec = [pc |-> "idle"]
    /\ ec = [groups |-> [c \in Consumers |-> 0], owner |-> [c \in Consumers |-> "none"],
             made |-> 0, ret |-> 0, pc |-> "idle", tasks |-> {}, stopAt |-> "never"]
    /\ pend = [op |-> "none", out |-> "none", reply |-> "none", rows |-> {}, n |-> 0]
    /\ info = [out |-> "none", name |-> "", reply |-> "none",
               length |-> 0, first |-> 0, last |-> 0, groups |-> 0]
    /\ app = [pc |-> "startup", pool |-> "open", calls |-> <<>>]

\* The read loop is studied on an interpreter on which publisher, group
\* creation and consumer derive one stream name per event type.
Init == pyFormat = "value" /\ Setup

\* ConsumerGroup.register_handler: append to the list of the type.  Handlers
\* are numbered in the order of registration on their ConsumerGroup; under
\* Spec they are registered during setup, before consume() is started.
RegisterHandler(c, T) ==
    /\ NumRegistered(c) < MaxHandlers
    /\ pc[c] = "new"
    /\ handlers' = [handlers EXCEPT ![c][T] = Append(@, NumRegistered(c) + 1)]
    /\ UNCHANGED <<decodeResponses, pyFormat, appVars, ec, pubVars, brokerVars, loopVars, stopVars, claimVars>>

\* register_handler called while consume() of the group is running
RegisterLate(c, T) ==
    /\ NumRegistered(c) < MaxHandlers
    /\ pc[c] \in {"blocked", "handle", "ack", "backoff"}
    /\ handlers' = [handlers EXCEPT ![c][T] = Append(@, NumRegistered(c) + 1)]
    /\ UNCHANGED <<decodeResponses, pyFormat, appVars, ec, pubVars, brokerVars, loopVars, stopVars, claimVars>>

\* the replies XGROUP CREATE ... MKSTREAM can give: OK when the stream has no
\* such group, BUSYGROUP when it has, or another error in either case
XGroupCreate(T) ==
    {IF cursor[GroupStream(T)] = NoGroup THEN "OK" ELSE "BUSYGROUP", "ERR"}

\* variant: BUSYGROUP is handled like every other error
OnCreateReplyStrict(reply) ==
    IF reply = "OK" THEN "true" ELSE "raised"

\* create_consumer_group's outcome: True after the call returned and in the
\* except branch when "BUSYGROUP" is in the error text, else the error is
\* raised again
OnCreateReply(reply) ==
    IF reply = "OK" \/ reply = "BUSYGROUP" THEN "true" ELSE "raised"

\* EventPublisher.create_consumer_group: XGROUP CREATE ... MKSTREAM; only the
\* reply OK has created a group, at the start of the stream or at its end.
CreateConsumerGroup(T, fromStart) ==
    /\ \E reply \in XGroupCreate(T) :
          /\ cursor' = IF reply = "OK"
                       THEN [cursor EXCEPT ![GroupStream(T)] =
                                IF fromStart THEN 0 ELSE LastId(T)]
                       ELSE cursor
          /\ xgroup' = [reply |-> reply, ret |-> OnCreateReply(reply)]
    /\ UNCHANGED <<decodeResponses, pyFormat, appVars, ec, pubIn, pubPos, pubIds, pubPc, xadds, stream,
                   pel, dcount, stale, acked, handlers, loopVars, stopVars, claimVars, codec>>

\* the application's startup: one create_consumer_group call per stream, which
\* creates the group
CreateGroupAtStartup(T, fromStart) ==
    /\ CreateConsumerGroup(T, fromStart)
    /\ xgroup'.reply = "OK"

\* the id XADD assigns: larger than every id of the broker
NextEntryId == Cardinality(Appended) + 1

\* EventPublisher.publish: XADD to the stream of the event's own type; the
\* serialized record carries event_type = T.
Publish(T) ==
    /\ NextEntryId <= MaxMsgs
    /\ stream' = [stream EXCEPT ![GetStreamName(FormatType("value", T))] =
                      Append(@, [id |-> NextEntryId, tag |-> StrType("value", T)])]
    /\ UNCHANGED <<decodeResponses, pyFormat, appVars, ec, pubVars, cursor, pel, dcount, stale, acked, handlers,
                   loopVars, stopVars, claimVars>>

\* A record on the stream whose event_type field is missing or is no
\* EventType value (the case _process_message's outer except handles):
\* written by another producer, or by _serialize_event's str(v) applied to
\* an event_type that is still an Enum member ("EventType.X").
ForeignAppend(T) ==
    /\ NextEntryId <= MaxMsgs
    /\ stream' = [stream EXCEPT ![ConsumerStream(T)] =
                      Append(@, [id |-> NextEntryId, tag |-> NoTag])]
    /\ UNCHANGED <<decodeResponses, pyFormat, appVars, ec, pubVars, cursor, pel, dcount, stale, acked, handlers,
                   loopVars, stopVars, claimVars>>

\* ---------------------------------------------------------------- publisher
Events == [type : Types, rep : Reps]
BatchInputs == UNION {[1..n -> Events] : n \in 0..MaxBatch}

\* the first position of the input list that holds an event of the type of
\* position i (a member and its value are the same dict key)
FirstAt(events, i) ==
    CHOOSE j \in 1..Len(events) :
        /\ events[j].type = events[i].type
        /\ \A k \in 1..(j - 1) : events[k].type # events[i].type

\* publish_batch's two loops: events_by_type groups the input by event_type,
\* the groups in order of first occurrence, each group in input order.  The
\* k-th publish() call is for input position PublishOrder(events)[k].
PublishOrder(events) ==
    CHOOSE p \in [1..Len(events) -> 1..Len(events)] :
        \A a, b \in 1..Len(events) :
            a < b => \/ FirstAt(events, p[a]) < FirstAt(events, p[b])
                     \/ FirstAt(events, p[a]) = FirstAt(events, p[b]) /\ p[a] < p[b]

\* publish_batch(events) up to its first publish() call
PublishBatch(events) ==
    /\ pubPc = "idle"
    /\ pubIn' = events
    /\ pubPos' = 0
    /\ pubIds' = <<>>
    /\ xadds' = 0
    /\ pubPc' = IF events = <<>> THEN "returned" ELSE "running"
    /\ UNCHANGED <<decodeResponses, pyFormat, appVars, ec, brokerVars, handlers, loopVars, stopVars,
                   claimVars, xgroup, codec>>

\* the input position of the event publish_batch passes to publish() next
NextEvent == PublishOrder(pubIn)[pubPos + 1]

\* publish(event) called by publish_batch, XADD succeeds: the serialized
\* record (event_type = str(v), event_id) is appended to the stream named
\* after event.event_type, the entry id is returned and collected
PublishOk ==
    /\ pubPc = "running"
    /\ stream' = [stream EXCEPT
                      ![GetStreamName(FormatType(pubIn[NextEvent].rep, pubIn[NextEvent].type))] =
                          Append(@, [id |-> NextEntryId,
                                     tag |-> StrType(pubIn[NextEvent].rep, pubIn[NextEvent].type),
                                     event |-> NextEvent])]
    /\ pubIds' = Append(pubIds, NextEntryId)
    /\ xadds' = xadds + 1
    /\ pubPos' = pubPos + 1
    /\ pubPc' = IF pubPos + 1 = Len(pubIn) THEN "returned" ELSE "running"
    /\ UNCHANGED <<decodeResponses, pyFormat, appVars, ec, cursor, pel, dcount, stale, acked, handlers,
                   loopVars, stopVars, claimVars, pubIn, xgroup, codec>>

\* variant: publish() tries the append again
OnAppendErrorRetry == "running"

\* where a failing XADD takes publish(): it logs and re-raises, and
\* publish_batch does not catch
OnAppendError == "raised"

\* publish(event) called by publish_batch, XADD raises
PublishRaise ==
    /\ pubPc = "running"
    /\ xadds' = xadds + 1
    /\ pubPc' = OnAppendError
    /\ UNCHANGED <<decodeResponses, pyFormat, appVars, ec, brokerVars, handlers, loopVars, stopVars,
                   claimVars, pubIn, pubPos, pubIds, xgroup, codec>>

\* ---------------------------------------------------------------- stream info
\* a stream exists at the broker once XADD or XGROUP CREATE ... MKSTREAM has
\* been issued for it
StreamExists(n) == stream[n] # <<>> \/ cursor[n] # NoGroup

\* the replies of XINFO STREAM: the stream's description, "no such key" for a
\* stream that does not exist, or another error
XInfoStream(n) == {IF StreamExists(n) THEN "OK" ELSE "NOKEY", "ERR"}

\* variant: the error of the broker call leaves get_stream_info
OnInfoErrorRaise == "raised"

\* `except Exception` of get_stream_info: {"error": str(e)} is returned
OnInfoError == "error"

\* EventPublisher.get_stream_info(text): XINFO STREAM on the stream of the
\* text; the reply's length, first-entry, last-entry (None, here 0, for an
\* empty stream) and groups are returned, or the error payload.
GetStreamInfo(text) ==
    /\ LET n == GetStreamName(text)
       IN \E reply \in XInfoStream(n) :
             info' = IF reply = "OK"
                     THEN [out |-> "info", name |-> n, reply |-> reply,
                           length |-> Len(stream[n]),
                           first |-> IF stream[n] = <<>> THEN 0 ELSE stream[n][1].id,
                           last |-> IF stream[n] = <<>> THEN 0
                                    ELSE stream[n][Len(stream[n])].id,
                           groups |-> IF cursor[n] = NoGroup THEN 0 ELSE 1]
                     ELSE [out |-> OnInfoError, name |-> n, reply |-> reply,
                           length |-> 0, first |-> 0, last |-> 0, groups |-> 0]
    /\ UNCHANGED <<decodeResponses, pyFormat, app, ec, pubVars, brokerVars, handlers, loopVars,
                   stopVars, claimVars>>

\* ---------------------------------------------------------------- record codec
\* Python values, each with the text str() gives for it
PyNone == [t |-> "none", v |-> "None"]
PyBool(b) == [t |-> "bool", v |-> IF b THEN "True" ELSE "False"]
PyStr(text) == [t |-> "str", v |-> text]
PyInt(text) == [t |-> "int", v |-> text]
PyFloat(text) == [t |-> "float", v |-> text]
PyJson(text) == [t |-> "json", v |-> text]     \* a dict or list, by its json.dumps text
PyTime(text) == [t |-> "time", v |-> text]     \* a datetime, by its isoformat text
PyEnum(T) == [t |-> "enum", v |-> T]           \* the EventType member of value T
PyRaise == [t |-> "raise", v |-> ""]           \* no value: the call raised

IntTexts == {"7", "90"}
FloatTexts == {"12.5", "7.0", "90.0"}
IsoTexts == {"2024-01-02T03:04:05"}
JsonTexts == {"{}", "[]", "7", "90", "12.5", "7.0", "true", "false", "null"}
RawTexts ==
    IntTexts \cup FloatTexts \cup IsoTexts \cup JsonTexts \cup
    {"None", "True", "False", "TRUE", "bar", "T-1", "nan", "T1", MemberText("T1")}

\* the key lists of _deserialize_event
JsonFields == {"metadata", "payload", "headers", "data", "context", "errors"}
TimeFields == {"timestamp"}
FloatFields ==
    {"lat", "lng", "speed", "altitude", "accuracy", "distance_from_last",
     "records_processed", "records_created", "records_updated", "records_failed",
     "duration_seconds", "retry_count"}
IntFields == {"heading", "time_since_last"}
BoolFields == {"ignition", "signature_valid", "notify_slack", "notify_email", "recoverable"}

\* the fields of the event classes that are sent through the codec, with the
\* values the classes allow for them
FieldValues(name) ==
    CASE name = "event_id" -> {PyStr("bar")}
      [] name = "event_type" -> {PyEnum(T) : T \in Types} \cup {PyStr(T) : T \in Types}
      [] name = "timestamp" -> {PyTime("2024-01-02T03:04:05")}
      [] name = "metadata" -> {PyJson("{}")}
      [] name = "errors" -> {PyJson("[]")}
      [] name = "recipients" -> {PyJson("[]")}
      [] name = "correlation_id" -> {PyStr("bar"), PyNone}
      [] name = "truck_id" -> {PyStr("T-1"), PyNone}
      [] name = "lat" -> {PyFloat("12.5"), PyFloat("7.0")}
      [] name = "speed" -> {PyFloat("12.5"), PyNone}
      [] name = "heading" -> {PyInt("90"), PyNone}
      [] name = "ignition" -> {PyBool(TRUE), PyBool(FALSE), PyNone}
      [] name = "notify_slack" -> {PyBool(TRUE), PyBool(FALSE)}
      [] name = "records_processed" -> {PyInt("7")}
      [] name = "origin_lat" -> {PyFloat("12.5")}
EventFieldNames ==
    {"event_id", "event_type", "timestamp", "metadata", "errors", "recipients",
     "correlation_id", "truck_id", "lat", "speed", "heading", "ignition",
     "notify_slack", "records_processed", "origin_lat"}
WireFieldNames == EventFieldNames \cup {"foo", "payload"}

\* _serialize_event for one value of model_dump(): isoformat for a datetime,
\* json.dumps for a dict or list, str(v) for everything else
SerializeValue(val) ==
    IF val.t = "time" THEN val.v
    ELSE IF val.t = "json" THEN val.v
    ELSE IF val.t = "enum" THEN StrType("member", val.v)
    ELSE val.v

\* the key as the decoder sees it: a str with decode_responses, else bytes
RecordKey(name) == [rep |-> IF decodeResponses THEN "str" ELSE "bytes", name |-> name]

\* `key in [...]`: a bytes key equals no str of the list
InList(key, names) == key.rep = "str" /\ key.name \in names

\* json.loads(value); PyRaise stands for JSONDecodeError
JsonLoads(raw) ==
    CASE raw \in {"{}", "[]"} -> PyJson(raw)
      [] raw \in IntTexts -> PyInt(raw)
      [] raw \in FloatTexts -> PyFloat(raw)
      [] raw = "true" -> PyBool(TRUE)
      [] raw = "false" -> PyBool(FALSE)
      [] raw = "null" -> PyNone
      [] OTHER -> PyRaise

\* float(value); PyRaise stands for ValueError
ParseFloat(raw) ==
    CASE raw \in FloatTexts -> PyFloat(raw)
      [] raw \in IntTexts -> PyFloat(raw \o ".0")
      [] raw = "nan" -> PyFloat("nan")
      [] OTHER -> PyRaise

\* int(value); PyRaise stands for ValueError
ParseInt(raw) == IF raw \in IntTexts THEN PyInt(raw) ELSE PyRaise

\* datetime.fromisoformat(value); PyRaise stands for ValueError
FromIsoFormat(raw) == IF raw \in IsoTexts THEN PyTime(raw) ELSE PyRaise

\* value.lower()
Lower(raw) ==
    CASE raw \in {"True", "TRUE"} -> "true"
      [] raw = "False" -> "false"
      [] raw = "None" -> "none"
      [] raw = "T-1" -> "t-1"
      [] raw = "T1" -> "t1"
      [] raw = "bar" -> "bar"
      [] raw = MemberText("T1") -> "eventtype.t1"
      [] raw \in IsoTexts -> "2024-01-02t03:04:05"
      [] OTHER -> raw

\* variant: the text is compared as it is
IsTrueExact(raw) == raw = "true"

\* value.lower() == 'true'
IsTrue(raw) == Lower(raw) = "true"

\* the result of a parse, or the raw string when the parse raised
OrRaw(parsed, raw) == IF parsed = PyRaise THEN PyStr(raw) ELSE parsed

\* _deserialize_event for one item of the record
DeserializeValue(key, raw) ==
    IF InList(key, JsonFields) THEN OrRaw(JsonLoads(raw), raw)
    ELSE IF InList(key, TimeFields) THEN OrRaw(FromIsoFormat(raw), raw)
    ELSE IF InList(key, FloatFields) THEN OrRaw(ParseFloat(raw), raw)
    ELSE IF InList(key, IntFields) THEN OrRaw(ParseInt(raw), raw)
    ELSE IF InList(key, BoolFields) THEN PyBool(IsTrue(raw))
    ELSE PyStr(raw)

\* the publisher serializes one field of an event
SerializeField(name, val) ==
    /\ codec.pc = "idle"
    /\ codec' = [pc |-> "serialized", src |-> "publisher", name |-> name, value |-> val,
                 raw |-> SerializeValue(val)]
    /\ UNCHANGED <<decodeResponses, pyFormat, appVars, ec, pubIn, pubPos, pubIds, pubPc, xadds, xgroup,
                   brokerVars, handlers, loopVars, stopVars, claimVars>>

\* a record field written to the stream by any producer
WireField(name, raw) ==
    /\ codec.pc = "idle"
    /\ codec' = [pc |-> "serialized", src |-> "wire", name |-> name, value |-> PyStr(raw),
                 raw |-> raw]
    /\ UNCHANGED <<decodeResponses, pyFormat, appVars, ec, pubIn, pubPos, pubIds, pubPc, xadds, xgroup,
                   brokerVars, handlers, loopVars, stopVars, claimVars>>

\* the consumer decodes the field: result[key] = ...
DeserializeField ==
    /\ codec.pc = "serialized"
    /\ codec' = [codec EXCEPT !.pc = "decoded"] @@
                 [key |-> RecordKey(codec.name),
                  out |-> DeserializeValue(RecordKey(codec.name), codec.raw)]
    /\ UNCHANGED <<decodeResponses, pyFormat, appVars, ec, pubIn, pubPos, pubIds, pubPc, xadds, xgroup,
                   brokerVars, handlers, loopVars, stopVars, claimVars>>

\* ---------------------------------------------------------------- read loop
\* variant: the loop test does not read self.running
LoopTopForever(run) == "blocked"

\* `while self.running:` followed, with no suspension in between, by the
\* XREADGROUP call: the loop either blocks in the read or leaves.
LoopTop(run) == IF run THEN "blocked" ELSE "stopped"

\* variants of the acknowledgment test: XACK whatever _process_message
\* returned, and no XACK at all
AckAlways(success) == TRUE
AckNever(success) == FALSE

\* `if success:` of consume(): whether XACK is issued for a processed message
AckIssued(success) == success

\* variant: _process_message reports failure when a handler raised
ProcessResultStrict(er) == er = {}

\* what _process_message returns after its handler loop, er being the
\* handlers that raised: True, whatever the handlers did
ProcessResult(er) == TRUE

\* variant: the handler loop ends after the first handler of the list
NextHandlerFirstOnly(hs, h) == IF h = 0 /\ Len(hs) > 0 THEN 1 ELSE 0

\* The position of the handler invoked after position h of the list hs
\* (0: before the first); 0 when the for loop over the list is over.
NextHandler(hs, h) == IF h < Len(hs) THEN h + 1 ELSE 0

\* variant: the for loops test self.running before each message
BatchOverOrStopped(c, b, i) == i > Len(b) \/ ~running[c]

\* the for loops over the reply are over at position i of the batch b
BatchOver(c, b, i) == i > Len(b)

\* consume()'s for loops from position i of the batch b up to the next
\* suspension point: the first handler call, the XACK of a message without
\* handlers, or, past the end of the batch, the loop test and the next read.
\* A message whose type cannot be resolved makes _process_message return
\* False: no XACK, the loop goes on to the next message.
RECURSIVE Dispatch(_, _, _)
Dispatch(c, b, i) ==
    IF BatchOver(c, b, i)
    THEN [pc |-> LoopTop(running[c]), idx |-> 0, hidx |-> 0, ev |-> <<>>]
    ELSE LET m == b[i]
             hs == HandlersFor(c, m)
         IN IF DeserializeType(m) = NoTag
            THEN IF AckIssued(FALSE)
                 THEN [pc |-> "ack", idx |-> i, hidx |-> 0, ev |-> << <<"fail", m, 0>> >>]
                 ELSE LET r == Dispatch(c, b, i + 1)
                      IN [r EXCEPT !.ev = << <<"fail", m, 0>> >> \o @]
            ELSE IF NextHandler(hs, 0) = 0
                 THEN IF AckIssued(TRUE)
                      THEN [pc |-> "ack", idx |-> i, hidx |-> 0, ev |-> <<>>]
                      ELSE Dispatch(c, b, i + 1)
                 ELSE [pc |-> "handle", idx |-> i, hidx |-> NextHandler(hs, 0),
                       ev |-> << <<"call", m, hs[NextHandler(hs, 0)]>> >>]

\* the loop's variables after Dispatch returned r for the batch b, lg being
\* the log so far
Continue(c, b, lg, r) ==
    /\ pc' = [pc EXCEPT ![c] = r.pc]
    /\ idx' = [idx EXCEPT ![c] = r.idx]
    /\ hidx' = [hidx EXCEPT ![c] = r.hidx]
    /\ errs' = [errs EXCEPT ![c] = {}]
    /\ batch' = [batch EXCEPT ![c] = b]
    /\ log' = [log EXCEPT ![c] = lg \o r.ev]

\* consume(event_types): running = True, then the first loop test and read.
Consume(c, ets) ==
    /\ pc[c] = "new"
    /\ running' = [running EXCEPT ![c] = TRUE]
    /\ subs' = [subs EXCEPT ![c] = ets]
    /\ pc' = [pc EXCEPT ![c] = LoopTop(TRUE)]
    /\ UNCHANGED <<decodeResponses, pyFormat, appVars, ec, pubVars, brokerVars, handlers, batch, idx, hidx, errs, log,
                   reads, cancelled, stopVars, claimVars>>

\* variant: every event type, registered or not
HandledTypesAll(c) == Types

\* the event types a group handles: list(group.handlers.keys())
HandledTypes(c) == {T \in Types : handlers[c][T] # <<>>}

\* EventConsumer.start_all for the group of c: when the group handles some
\* event type, asyncio.create_task schedules consume(event_types); the task
\* has not run yet.
StartAll(c) ==
    /\ pc[c] = "new"
    /\ HandledTypes(c) # {}
    /\ pc' = [pc EXCEPT ![c] = "scheduled"]
    /\ subs' = [subs EXCEPT ![c] = HandledTypes(c)]
    /\ UNCHANGED <<decodeResponses, pyFormat, appVars, ec, pubVars, brokerVars, handlers, running, batch, idx, hidx, errs,
                   log, reads, cancelled, stopVars, claimVars>>

\* the first step of the scheduled consume task: running = True, then the
\* first loop test and read
TaskStart(c) ==
    /\ pc[c] = "scheduled"
    /\ running' = [running EXCEPT ![c] = TRUE]
    /\ pc' = [pc EXCEPT ![c] = LoopTop(TRUE)]
    /\ UNCHANGED <<decodeResponses, pyFormat, appVars, ec, pubVars, brokerVars, handlers, subs, batch, idx, hidx, errs,
                   log, reads, cancelled, stopVars, claimVars>>

\* ---------------------------------------------------------------- EventConsumer
\* The groups of one EventConsumer are named like the loops; every group
\* handles its own event type, so that each has its own cursor at the broker.
ConsumerName == "api_consumer"
OwnType(c) == IF c = "c1" THEN "T1" ELSE "T2"

\* variant: create_group never finds the name
GroupKnownNever(c) == FALSE

\* `group_name in self.groups`
GroupKnown(c) == ec.groups[c] # 0

\* EventConsumer.create_group: a ConsumerGroup is constructed for a name that
\* is not in self.groups, with the consumer's name and no handlers; the
\* object stored under the name is returned.
CreateGroup(c) ==
    /\ GroupKnown(c) \/ (ec.made < MaxObjects /\ pc[c] = "new")
    /\ ec' = IF GroupKnown(c)
             THEN [ec EXCEPT !.ret = ec.groups[c]]
             ELSE [ec EXCEPT !.groups[c] = ec.made + 1, !.owner[c] = ConsumerName,
                             !.made = ec.made + 1, !.ret = ec.made + 1]
    /\ handlers' = IF GroupKnown(c) THEN handlers
                   ELSE [handlers EXCEPT ![c] = [T \in Types |-> <<>>]]
    /\ UNCHANGED <<decodeResponses, pyFormat, appVars, pubVars, brokerVars, loopVars, stopVars, claimVars>>

\* register_handler on a group obtained from create_group
RegisterOn(c, T) ==
    /\ GroupKnown(c)
    /\ ec.pc = "idle"
    /\ RegisterHandler(c, T)

\* EventConsumer.start_all up to its await: a consume task is created for
\* every group with a non-empty handlers dict; without tasks it returns,
\* else it waits in asyncio.gather.
StartAllGroups ==
    /\ ec.pc = "idle"
    /\ LET started == {c \in Consumers : GroupKnown(c) /\ HandledTypes(c) # {}}
       IN /\ pc' = [c \in Consumers |-> IF c \in started THEN "scheduled" ELSE pc[c]]
          /\ subs' = [c \in Consumers |-> IF c \in started THEN HandledTypes(c) ELSE subs[c]]
          /\ ec' = [ec EXCEPT !.tasks = started,
                              !.pc = IF started = {} THEN "returned" ELSE "gather"]
    /\ UNCHANGED <<decodeResponses, pyFormat, appVars, pubVars, brokerVars, handlers, running, batch, idx,
                   hidx, errs, log, reads, cancelled, stopVars, claimVars>>

\* variant: the failure of one task cancels the tasks still running
AfterSiblingFailureCancel(p) ==
    IF p \in {"scheduled", "blocked", "handle", "ack", "backoff"} THEN "stopped" ELSE p

\* what gather (return_exceptions left False) does to the task of a group,
\* suspended at p, when the task of another group has failed: nothing
AfterSiblingFailure(p) == p

\* asyncio.gather of start_all: it returns when every task has returned (a
\* consume() that caught its cancellation has returned) and raises as soon as
\* one task has ended with an exception or a cancellation that left
\* consume(); the other tasks are left running.
GatherDone ==
    /\ ec.pc = "gather"
    /\ \/ /\ \E c \in ec.tasks : pc[c] = "raised"
          /\ ec' = [ec EXCEPT !.pc = "raised"]
          /\ pc' = [c \in Consumers |-> AfterSiblingFailure(pc[c])]
       \/ /\ \A c \in ec.tasks : pc[c] = "stopped"
          /\ ec' = [ec EXCEPT !.pc = "returned"]
          /\ pc' = pc
    /\ UNCHANGED <<decodeResponses, pyFormat, appVars, pubVars, brokerVars, handlers, running, subs, batch,
                   idx, hidx, errs, log, reads, cancelled, stopVars, claimVars>>

\* EventConsumer.stop_all: stop() on every group of self.groups; nothing is
\* awaited.  stopAt notes where start_all was when stop_all was called.
StopAll ==
    /\ \E c \in Consumers : GroupKnown(c) /\ ~stopCalled[c]
    /\ running' = [c \in Consumers |-> IF GroupKnown(c) THEN FALSE ELSE running[c]]
    /\ stopCalled' = [c \in Consumers |-> GroupKnown(c) \/ stopCalled[c]]
    /\ stopIdx' = [c \in Consumers |->
                      IF GroupKnown(c) /\ ~stopCalled[c] THEN idx[c] ELSE stopIdx[c]]
    /\ ec' = [ec EXCEPT !.stopAt = ec.pc]
    /\ UNCHANGED <<decodeResponses, pyFormat, appVars, pubVars, brokerVars, handlers, pc, subs, batch,
                   idx, hidx, errs, log, reads, cancelled, claimVars>>

\* variant: the read starts at the beginning of the stream, whatever was
\* delivered before
NewEntriesFromStart(T, count) ==
    LET all == stream[ConsumerStream(T)]
    IN [i \in 1..(IF Len(all) < count THEN Len(all) ELSE count) |-> all[i].id]

\* variant: the reply lists the newest entry first
NewEntriesNewestFirst(T, count) ==
    LET after == SelectSeq(stream[ConsumerStream(T)],
                           LAMBDA e : e.id > cursor[ConsumerStream(T)])
        n == IF Len(after) < count THEN Len(after) ELSE count
    IN [i \in 1..n |-> after[n + 1 - i].id]

\* XREADGROUP ">" for one stream: the first `count` entries after the group's
\* last-delivered id, oldest first
NewEntries(T, count) ==
    LET after == SelectSeq(stream[ConsumerStream(T)],
                           LAMBDA e : e.id > cursor[ConsumerStream(T)])
    IN [i \in 1..(IF Len(after) < count THEN Len(after) ELSE count) |-> after[i].id]

\* the reply of XREADGROUP for the streams dict, flattened in its order
ReadReply(c) ==
    Concat([i \in 1..Len(TypeOrder) |->
               IF TypeOrder[i] \in subs[c] THEN NewEntries(TypeOrder[i], BatchSize)
               ELSE <<>>])

\* XREADGROUP returns: NOGROUP error when the group is missing on a stream,
\* an empty reply after block_ms when nothing is new (`continue`), else the
\* new entries, which become pending for this consumer.
ReadReturn(c) ==
    /\ pc[c] = "blocked"
    /\ IF \E T \in subs[c] : cursor[ConsumerStream(T)] = NoGroup
       THEN /\ pc' = [pc EXCEPT ![c] = "backoff"]
            /\ UNCHANGED <<brokerVars, batch, idx, hidx, errs, log, reads>>
       ELSE IF ReadReply(c) = <<>>
       THEN /\ pc' = [pc EXCEPT ![c] = LoopTop(running[c])]
            /\ UNCHANGED <<brokerVars, batch, idx, hidx, errs, log, reads>>
       ELSE LET b == ReadReply(c)
                Read(n) == {T \in subs[c] : /\ ConsumerStream(T) = n
                                              /\ NewEntries(T, BatchSize) # <<>>}
                Last(T) == NewEntries(T, BatchSize)[Len(NewEntries(T, BatchSize))]
            IN /\ cursor' = [n \in StreamNames |->
                                IF Read(n) # {} THEN Last(CHOOSE T \in Read(n) : TRUE)
                                ELSE cursor[n]]
               /\ pel' = [pel EXCEPT ![c] = @ \cup Range(b)]
               /\ dcount' = [m \in Ids |-> IF m \in Range(b) THEN 1 ELSE dcount[m]]
               /\ stale' = [m \in Ids |-> IF m \in Range(b) THEN FALSE ELSE stale[m]]
               /\ reads' = [m \in Ids |-> IF m \in Range(b) THEN reads[m] + 1 ELSE reads[m]]
               /\ Continue(c, b, <<>>, Dispatch(c, b, 1))
               /\ UNCHANGED <<stream, acked>>
    /\ UNCHANGED <<decodeResponses, pyFormat, appVars, ec, pubVars, handlers, running, subs, cancelled, stopVars,
                   claimVars>>

\* the awaited handler.handle returns, or raises an Exception that the inner
\* except logs; the for loop goes on with the next handler of the list
HandlerDone(c, ok) ==
    /\ pc[c] = "handle"
    /\ LET m == batch[c][idx[c]]
           hs == HandlersFor(c, m)
           n == NextHandler(hs, hidx[c])
           done == <<"done", m, hs[hidx[c]]>>
           er == IF ok THEN errs[c] ELSE errs[c] \cup {hs[hidx[c]]}
       IN IF n # 0
          THEN /\ hidx' = [hidx EXCEPT ![c] = n]
               /\ log' = [log EXCEPT ![c] = @ \o <<done, <<"call", m, hs[n]>> >>]
               /\ errs' = [errs EXCEPT ![c] = er]
               /\ UNCHANGED <<pc, idx, batch>>
          ELSE IF AckIssued(ProcessResult(er))
               THEN /\ pc' = [pc EXCEPT ![c] = "ack"]
                    /\ hidx' = [hidx EXCEPT ![c] = 0]
                    /\ log' = [log EXCEPT ![c] = Append(@, done)]
                    /\ errs' = [errs EXCEPT ![c] = er]
                    /\ UNCHANGED <<idx, batch>>
               ELSE Continue(c, batch[c], Append(log[c], done),
                             Dispatch(c, batch[c], idx[c] + 1))
    /\ UNCHANGED <<decodeResponses, pyFormat, appVars, ec, pubVars, brokerVars, handlers, running, subs, reads, cancelled,
                   stopVars, claimVars>>

\* XACK returns: the pending entry of the id is destroyed, whoever owns it
AckReturn(c) ==
    /\ pc[c] = "ack"
    /\ LET m == batch[c][idx[c]]
       IN /\ pel' = [d \in Consumers |-> pel[d] \ {m}]
          /\ dcount' = [dcount EXCEPT ![m] = 0]
          /\ stale' = [stale EXCEPT ![m] = FALSE]
          /\ acked' = acked \cup {m}
          /\ Continue(c, batch[c], Append(log[c], <<"ack", m, 0>>),
                      Dispatch(c, batch[c], idx[c] + 1))
    /\ UNCHANGED <<decodeResponses, pyFormat, appVars, ec, pubVars, stream, cursor, handlers,
                   running, subs, reads, cancelled, stopVars, claimVars>>

\* variant: the loop leaves on a broker error
OnBrokerErrorExit == "stopped"

\* where `except Exception` of consume() takes the loop
OnBrokerError == "backoff"

\* variant: the error of XACK is swallowed and the for loops go on with the
\* next message of the batch
OnAckErrorSkip(c) ==
    LET r == Dispatch(c, batch[c], idx[c] + 1)
    IN [r EXCEPT !.ev = << <<"abort", batch[c][idx[c]], 0>> >> \o @]

\* the exception of `await client.xack(...)` leaves both for loops and is
\* caught by `except Exception` of the while loop
OnAckError(c) ==
    [pc |-> OnBrokerError, idx |-> 0, hidx |-> 0,
     ev |-> << <<"abort", batch[c][idx[c]], 0>> >>]

\* XREADGROUP or XACK raises a connection error: the rest of the batch is
\* abandoned, the loop logs and sleeps
BrokerFail(c) ==
    /\ pc[c] \in {"blocked", "ack"}
    /\ LET r == IF pc[c] = "ack" THEN OnAckError(c)
                ELSE [pc |-> OnBrokerError, idx |-> 0, hidx |-> hidx[c], ev |-> <<>>]
       IN /\ pc' = [pc EXCEPT ![c] = r.pc]
          /\ idx' = [idx EXCEPT ![c] = r.idx]
          /\ hidx' = [hidx EXCEPT ![c] = r.hidx]
          /\ log' = [log EXCEPT ![c] = @ \o r.ev]
    /\ errs' = [errs EXCEPT ![c] = {}]
    /\ UNCHANGED <<decodeResponses, pyFormat, appVars, ec, pubVars, brokerVars, handlers, running, subs, batch,
                   reads, cancelled, stopVars, claimVars>>

\* asyncio.sleep(5) is over: back to the loop test
BackoffDone(c) ==
    /\ pc[c] = "backoff"
    /\ pc' = [pc EXCEPT ![c] = LoopTop(running[c])]
    /\ UNCHANGED <<decodeResponses, pyFormat, appVars, ec, pubVars, brokerVars, handlers, running, subs, batch, idx,
                   hidx, errs, log, reads, cancelled, stopVars, claimVars>>

\* ConsumerGroup.stop; stopIdx notes the batch position being processed
Stop(c) ==
    /\ ~stopCalled[c]
    /\ running' = [running EXCEPT ![c] = FALSE]
    /\ stopCalled' = [stopCalled EXCEPT ![c] = TRUE]
    /\ stopIdx' = [stopIdx EXCEPT ![c] = idx[c]]
    /\ UNCHANGED <<decodeResponses, pyFormat, appVars, ec, pubVars, brokerVars, handlers, pc, subs, batch, idx, hidx,
                   errs, log, reads, cancelled, claimVars>>

\* variant: CancelledError is handled like a broker error
OnCancelAsError(p) == "backoff"

\* variant: CancelledError raised in a handler is caught by the `except
\* Exception` around the handler call, and _process_message returns True
OnCancelCaughtInHandler(p) ==
    IF p = "handle" THEN "ack" ELSE IF p = "backoff" THEN "raised" ELSE "stopped"

\* where CancelledError, raised at the suspension point p, takes consume():
\* `except asyncio.CancelledError: break` covers the try body only
OnCancel(p) == IF p = "backoff" THEN "raised" ELSE "stopped"

\* The consume task is cancelled at a suspension point.  Inside the try
\* (read, handler, XACK) CancelledError is caught and the loop breaks; in the
\* sleep of the except clause it leaves consume() as an exception.
Cancel(c) ==
    /\ pc[c] \in {"blocked", "handle", "ack", "backoff"}
    /\ cancelled' = [cancelled EXCEPT ![c] = TRUE]
    /\ pc' = [pc EXCEPT ![c] = OnCancel(pc[c])]
    /\ idx' = [idx EXCEPT ![c] = IF OnCancel(pc[c]) = "ack" THEN @ ELSE 0]
    /\ hidx' = [hidx EXCEPT ![c] = 0]
    /\ errs' = [errs EXCEPT ![c] = {}]
    /\ UNCHANGED <<decodeResponses, pyFormat, appVars, ec, pubVars, brokerVars, handlers, running, subs, batch, log,
                   reads, stopVars, claimVars>>

\* ---------------------------------------------------------------- application
\* lifespan() of main.py with the group 'watch_tower_consumers', whose only
\* ConsumerGroup object is c1 and which handles every event type.
AppGroup == "c1"

\* position of the type in the iteration order of EventType
TypeIndex(T) == CHOOSE i \in 1..Len(TypeOrder) : TypeOrder[i] = T

\* the event types for which the startup loop has created the group
GroupsCreated == {T \in Types : cursor[GroupStream(T)] # NoGroup}

\* Startup, `for event_type in EventType: create_consumer_group(
\* event_type.value, ...)` with the default start_id "$": one call per type,
\* in order; a call that raises ends the loop in `except Exception`, which
\* logs and lets the startup go on.
AppCreateGroup(T) ==
    /\ app.pc = "startup"
    /\ xgroup.ret # "raised"
    /\ T \notin GroupsCreated
    /\ \A U \in Types : TypeIndex(U) < TypeIndex(T) => U \in GroupsCreated
    /\ CreateConsumerGroup(T, FALSE)

\* the group-creation block of the startup is over: skipped because the
\* first health check failed, left by an exception, or run to its end
GroupBlockOver ==
    xgroup.reply = "none" \/ xgroup.ret = "raised" \/ GroupsCreated = Types

\* Startup, second health check passed: EventConsumer("api_consumer"),
\* create_group, one register_handler call per event type, and
\* asyncio.create_task(consumer.start_all()), with no await in between; the
\* start_all task has not run yet.
AppStartConsumers ==
    /\ app.pc = "startup"
    /\ GroupBlockOver
    /\ ec' = [ec EXCEPT !.groups[AppGroup] = ec.made + 1, !.owner[AppGroup] = ConsumerName,
                        !.made = ec.made + 1, !.ret = ec.made + 1]
    /\ handlers' = [handlers EXCEPT ![AppGroup] = [T \in Types |-> <<TypeIndex(T)>>]]
    /\ app' = [app EXCEPT !.pc = "serving"]
    /\ UNCHANGED <<decodeResponses, pyFormat, info, pubVars, brokerVars, loopVars, stopVars,
                   claimVars>>

\* Startup, second health check failed: app.state.event_consumer stays None
AppNoConsumers ==
    /\ app.pc = "startup"
    /\ GroupBlockOver
    /\ app' = [app EXCEPT !.pc = "serving"]
    /\ UNCHANGED <<decodeResponses, pyFormat, info, ec, pubVars, brokerVars, handlers, loopVars,
                   stopVars, claimVars>>

\* the start_all task runs its first step
AppStartAll ==
    /\ app.pc = "serving"
    /\ GroupKnown(AppGroup)
    /\ StartAllGroups

\* what the cancellation of gather does to a child task at p: a task that
\* has not run yet is cancelled without running, a running consume() gets
\* CancelledError at its suspension point, a finished task is left alone
CancelChild(p) ==
    IF p = "scheduled" THEN "raised"
    ELSE IF p \in {"blocked", "handle", "ack", "backoff"} THEN OnCancel(p)
    ELSE p

\* Shutdown up to its await: stop_all(), then consumer_task.cancel().  The
\* cancellation of the start_all task cancels the gather it waits in, which
\* cancels every child task; gather ends once every child has ended.  A
\* start_all task that has not run yet is cancelled without running.
AppShutdown ==
    /\ app.pc = "serving"
    /\ IF GroupKnown(AppGroup)
       THEN /\ running' = [c \in Consumers |-> IF GroupKnown(c) THEN FALSE ELSE running[c]]
            /\ stopCalled' = [c \in Consumers |-> GroupKnown(c) \/ stopCalled[c]]
            /\ stopIdx' = [c \in Consumers |->
                              IF GroupKnown(c) /\ ~stopCalled[c] THEN idx[c] ELSE stopIdx[c]]
            /\ pc' = [c \in Consumers |-> IF c \in ec.tasks THEN CancelChild(pc[c]) ELSE pc[c]]
            /\ cancelled' = [c \in Consumers |->
                                cancelled[c] \/ (c \in ec.tasks /\ CancelChild(pc[c]) # pc[c])]
            /\ idx' = [c \in Consumers |-> IF c \in ec.tasks THEN 0 ELSE idx[c]]
            /\ hidx' = [c \in Consumers |-> IF c \in ec.tasks THEN 0 ELSE hidx[c]]
            /\ errs' = [c \in Consumers |-> IF c \in ec.tasks THEN {} ELSE errs[c]]
            /\ ec' = [ec EXCEPT !.stopAt = ec.pc,
                                !.pc = IF ec.pc = "idle" THEN "cancelled"
                                       ELSE IF ec.pc = "gather" THEN "cancelling" ELSE ec.pc]
            /\ app' = [app EXCEPT !.pc = "awaiting",
                                  !.calls = @ \o <<"stop_all", "cancel">>]
       ELSE /\ app' = [app EXCEPT !.pc = "closing"]
            /\ UNCHANGED <<running, stopCalled, stopIdx, pc, cancelled, idx, hidx, errs, ec>>
    /\ UNCHANGED <<decodeResponses, pyFormat, info, pubVars, brokerVars, handlers, subs, batch,
                   log, reads, claimVars>>

\* the cancelled gather has seen every child task end: start_all ends with
\* the cancellation
GatherCancelled ==
    /\ ec.pc = "cancelling"
    /\ \A c \in ec.tasks : pc[c] \in {"stopped", "raised"}
    /\ ec' = [ec EXCEPT !.pc = "cancelled"]
    /\ UNCHANGED <<decodeResponses, pyFormat, appVars, pubVars, brokerVars, handlers, loopVars,
                   stopVars, claimVars>>

\* variant: the shutdown does not wait for the task
TaskEndedOrNot(p) == TRUE

\* `await app.state.consumer_task` returns or raises: the start_all task is done
TaskEnded(p) == p \in {"returned", "raised", "cancelled"}

\* Shutdown, the await of the consumer task is over; its CancelledError is
\* passed over
AppAwaitDone ==
    /\ app.pc = "awaiting"
    /\ TaskEnded(ec.pc)
    /\ app' = [app EXCEPT !.pc = "closing"]
    /\ UNCHANGED <<decodeResponses, pyFormat, info, ec, pubVars, brokerVars, handlers, loopVars,
                   stopVars, claimVars>>

\* close_redis_pool: the pool is disconnected and forgotten; shutdown is complete
ClosePool ==
    /\ app.pc = "closing"
    /\ app' = [app EXCEPT !.pc = "complete", !.pool = "closed",
                          !.calls = Append(@, "close_pool")]
    /\ UNCHANGED <<decodeResponses, pyFormat, info, ec, pubVars, brokerVars, handlers, loopVars,
                   stopVars, claimVars>>

\* ---------------------------------------------------------------- pending, claim
\* min_idle_ms goes by: the idle time of the entries now pending exceeds it
Tick ==
    /\ \E m \in Pending : ~stale[m]
    /\ stale' = [m \in Ids |-> m \in Pending]
    /\ UNCHANGED <<decodeResponses, pyFormat, appVars, ec, pubVars, stream, cursor, pel, dcount, acked, handlers,
                   loopVars, stopVars, claimVars>>

\* get_pending_messages(T) as filtered by claim_pending_messages: the pending
\* entries of the group on stream T, of every consumer, idle for longer than
\* min_idle_ms
OldMessages(T) == {m \in Pending : StreamOf(m) = T /\ stale[m]}

\* What the installed client library does with the call of lines 215-219
\* is settled by the library, not by this repository; it is the same at
\* every call and the model learns it at the first one.  "rows": count= is
\* accepted and the reply is a list of rows (id, consumer, idle,
\* deliveries), as lines 221-229 index it.  "raises": the call is rejected
\* (redis.asyncio declares xpending(name, groupname) and a separate
\* xpending_range), the except clause of line 231 logs and returns [].
ApiChoices == IF xpendingApi = "unknown" THEN {"rows", "raises"} ELSE {xpendingApi}

\* count=100 of the xpending call
PendingCount == 100

\* get_pending_messages(T): the pending entries of the group on stream T, of
\* every consumer, the first PendingCount of them by id, or [] when the call
\* raised
GetPendingMessages(api, T) ==
    LET all == {m \in Pending : StreamOf(m) = T}
    IN IF api = "rows"
       THEN {m \in all : Cardinality({k \in all : k < m}) < PendingCount}
       ELSE {}

\* the replies of a broker command: executed, or failed without effect
BrokerReplies == {"OK", "ERR"}

\* what get_pending_messages returns for the reply: `except Exception`
\* turns every error into []
PendingRows(api, reply, T) ==
    IF reply = "OK" THEN GetPendingMessages(api, T) ELSE {}

\* ConsumerGroup.get_pending_messages(T) called on its own
GetPending(c, T) ==
    /\ \E api \in ApiChoices, reply \in BrokerReplies :
          /\ xpendingApi' = api
          /\ pend' = [op |-> "get", out |-> "returned", reply |-> reply,
                      rows |-> PendingRows(api, reply, T),
                      n |-> Cardinality(PendingRows(api, reply, T))]
    /\ UNCHANGED <<decodeResponses, pyFormat, appVars, ec, pubVars, brokerVars, handlers, loopVars,
                   stopVars, claimPc, claimIds>>

\* claim_pending_messages up to its XCLAIM call; with no old message it
\* returns 0 without calling XCLAIM
ClaimList(c, T) ==
    /\ claimPc[c] = "idle"
    /\ \E api \in ApiChoices, reply \in BrokerReplies :
          /\ xpendingApi' = api
          /\ IF OldMessages(T) \cap PendingRows(api, reply, T) = {}
             THEN /\ pend' = [op |-> "claim", out |-> "returned", reply |-> reply,
                              rows |-> {}, n |-> 0]
                  /\ UNCHANGED <<claimPc, claimIds>>
             ELSE /\ \A m \in OldMessages(T) : dcount[m] < MaxDeliveries
                  /\ claimPc' = [claimPc EXCEPT ![c] = "xclaim"]
                  /\ claimIds' = [claimIds EXCEPT ![c] =
                                      OldMessages(T) \cap PendingRows(api, reply, T)]
                  /\ pend' = [op |-> "claim", out |-> "xclaim", reply |-> reply,
                              rows |-> {}, n |-> 0]
    /\ UNCHANGED <<decodeResponses, pyFormat, appVars, ec, pubVars, brokerVars, handlers, loopVars, stopVars>>

\* the ids XCLAIM reassigns: those still pending and still idle long enough
Claimable(ids) == {m \in ids : m \in Pending /\ stale[m]}

\* variant: XCLAIM adds the ids to c without taking them from their owner
ReassignShared(c, ids) == [d \in Consumers |-> IF d = c THEN pel[d] \cup ids ELSE pel[d]]

\* the pending lists after XCLAIM gave the ids to consumer c
Reassign(c, ids) == [d \in Consumers |-> IF d = c THEN pel[d] \cup ids ELSE pel[d] \ ids]

\* what claim_pending_messages returns after XCLAIM: len(claimed)
ClaimReturn(c) == Cardinality(Claimable(claimIds[c]))

\* XCLAIM: the claimable ids become pending for c, their delivery count goes
\* up by one and their idle time restarts.  The reply (the claimed messages)
\* is only counted by claim_pending_messages.
ClaimExec(c) ==
    /\ claimPc[c] = "xclaim"
    /\ pel' = Reassign(c, Claimable(claimIds[c]))
    /\ dcount' = [m \in Ids |-> IF m \in Claimable(claimIds[c]) THEN dcount[m] + 1
                                ELSE dcount[m]]
    /\ stale' = [m \in Ids |-> IF m \in Claimable(claimIds[c]) THEN FALSE ELSE stale[m]]
    /\ claimPc' = [claimPc EXCEPT ![c] = "idle"]
    /\ claimIds' = [claimIds EXCEPT ![c] = {}]
    /\ pend' = [op |-> "claim", out |-> "returned", reply |-> "OK",
                rows |-> Claimable(claimIds[c]), n |-> ClaimReturn(c)]
    /\ UNCHANGED <<decodeResponses, pyFormat, appVars, ec, pubVars, stream, cursor, acked, handlers, loopVars, stopVars,
                   xpendingApi>>

\* variant: the error of XCLAIM leaves claim_pending_messages
OnClaimErrorRaise == "raised"

\* `except Exception` of claim_pending_messages: the error is logged and 0
\* is returned
OnClaimError == "returned"

\* XCLAIM raises: nothing was reassigned
ClaimFail(c) ==
    /\ claimPc[c] = "xclaim"
    /\ claimPc' = [claimPc EXCEPT ![c] = "idle"]
    /\ claimIds' = [claimIds EXCEPT ![c] = {}]
    /\ pend' = [op |-> "claim", out |-> OnClaimError, reply |-> "ERR", rows |-> {}, n |-> 0]
    /\ UNCHANGED <<decodeResponses, pyFormat, appVars, ec, pubVars, brokerVars, handlers, loopVars,
                   stopVars, xpendingApi>>

\* ---------------------------------------------------------------- specification
\* One consumer and its read loop.
Next ==
    \/ \E T \in Types : RegisterHandler("c1", T)
    \/ \E T \in Types, fromStart \in BOOLEAN : CreateGroupAtStartup(T, fromStart)
    \/ \E T \in Types : Publish(T)
    \/ \E T \in Types : ForeignAppend(T)
    \/ \E ets \in SUBSET Types \ {{}} : Consume("c1", ets)
    \/ ReadReturn("c1")
    \/ \E ok \in BOOLEAN : HandlerDone("c1", ok)
    \/ AckReturn("c1")
    \/ BrokerFail("c1")
    \/ BackoffDone("c1")
    \/ Stop("c1")
    \/ Cancel("c1")

Spec == Init /\ [][Next]_vars

\* Two competing consumers of the group on one stream: c1 with its handlers,
\* c2 without handlers, which may vanish; pending entries grow idle and are
\* claimed.
GroupNext ==
    \/ \E T \in LoopTypes : RegisterHandler("c1", T)
    \/ \E T \in LoopTypes, fromStart \in BOOLEAN : CreateGroupAtStartup(T, fromStart)
    \/ \E T \in LoopTypes : Publish(T)
    \/ \E c \in Consumers, ets \in SUBSET LoopTypes \ {{}} : Consume(c, ets)
    \/ \E c \in Consumers : ReadReturn(c)
    \/ \E c \in Consumers, ok \in BOOLEAN : HandlerDone(c, ok)
    \/ \E c \in Consumers : AckReturn(c)
    \/ \E c \in Consumers : BackoffDone(c)
    \/ Cancel("c2")
    \/ Tick
    \/ \E c \in Consumers, T \in LoopTypes : ClaimList(c, T)
    \/ \E c \in Consumers : ClaimExec(c)

GroupSpec == Init /\ [][GroupNext]_vars

\* One consumer that is neither stopped nor cancelled.  The event loop runs
\* every ready coroutine, a handler returns, a sleep ends, and the broker is
\* reachable again and again: an awaited call does not fail forever.
LiveNext ==
    \/ \E T \in LoopTypes : RegisterHandler("c1", T)
    \/ \E T \in LoopTypes, fromStart \in BOOLEAN : CreateGroupAtStartup(T, fromStart)
    \/ \E T \in LoopTypes : Publish(T)
    \/ \E ets \in SUBSET LoopTypes \ {{}} : Consume("c1", ets)
    \/ ReadReturn("c1")
    \/ \E ok \in BOOLEAN : HandlerDone("c1", ok)
    \/ AckReturn("c1")
    \/ BrokerFail("c1")
    \/ BackoffDone("c1")

LiveSpec ==
    /\ Init
    /\ [][LiveNext]_vars
    /\ SF_vars(ReadReturn("c1"))
    /\ WF_vars(\E ok \in BOOLEAN : HandlerDone("c1", ok))
    /\ WF_vars(AckReturn("c1"))
    /\ WF_vars(BackoffDone("c1"))

\* One group started by start_all and stopped by stop(), never cancelled.
\* The event loop runs the scheduled task, the blocking read returns after
\* block_ms at the latest, handlers and XACK return, the sleep ends.
StopNext ==
    \/ \E T \in LoopTypes : RegisterHandler("c1", T)
    \/ \E T \in LoopTypes, fromStart \in BOOLEAN : CreateGroupAtStartup(T, fromStart)
    \/ \E T \in LoopTypes : Publish(T)
    \/ StartAll("c1")
    \/ TaskStart("c1")
    \/ ReadReturn("c1")
    \/ \E ok \in BOOLEAN : HandlerDone("c1", ok)
    \/ AckReturn("c1")
    \/ BrokerFail("c1")
    \/ BackoffDone("c1")
    \/ Stop("c1")

StopSpec ==
    /\ Init
    /\ [][StopNext]_vars
    /\ WF_vars(TaskStart("c1"))
    /\ WF_vars(ReadReturn("c1"))
    /\ WF_vars(\E ok \in BOOLEAN : HandlerDone("c1", ok))
    /\ WF_vars(AckReturn("c1"))
    /\ WF_vars(BackoffDone("c1"))

\* create_consumer_group called any number of times, with every reply of the
\* broker, while events are published and one consumer reads them.
CreateNext ==
    \/ \E T \in LoopTypes : RegisterHandler("c1", T)
    \/ \E T \in LoopTypes, fromStart \in BOOLEAN : CreateConsumerGroup(T, fromStart)
    \/ \E T \in LoopTypes : Publish(T)
    \/ \E ets \in SUBSET LoopTypes \ {{}} : Consume("c1", ets)
    \/ ReadReturn("c1")
    \/ \E ok \in BOOLEAN : HandlerDone("c1", ok)
    \/ AckReturn("c1")
    \/ BackoffDone("c1")

CreateSpec == Init /\ [][CreateNext]_vars

\* Two consumers of the group on one stream, each with its own handlers and
\* its own read loop; pending entries grow idle and either consumer claims
\* them, at any point of the other's processing.
RaceNext ==
    \/ \E c \in Consumers, T \in LoopTypes : RegisterHandler(c, T)
    \/ \E T \in LoopTypes : CreateGroupAtStartup(T, TRUE)
    \/ \E T \in LoopTypes : Publish(T)
    \/ \E c \in Consumers : Consume(c, LoopTypes)
    \/ \E c \in Consumers : ReadReturn(c)
    \/ \E c \in Consumers, ok \in BOOLEAN : HandlerDone(c, ok)
    \/ \E c \in Consumers : AckReturn(c)
    \/ \E c \in Consumers : BackoffDone(c)
    \/ Tick
    \/ \E c \in Consumers, T \in LoopTypes : ClaimList(c, T)
    \/ \E c \in Consumers : ClaimExec(c)

RaceSpec == Init /\ [][RaceNext]_vars

\* One consumer with handlers whose task may be cancelled at any suspension
\* point, and a second consumer of the group that claims idle pending entries.
RecoverNext ==
    \/ \E T \in LoopTypes : RegisterHandler("c1", T)
    \/ \E T \in LoopTypes : CreateGroupAtStartup(T, TRUE)
    \/ \E T \in LoopTypes : Publish(T)
    \/ Consume("c1", LoopTypes)
    \/ ReadReturn("c1")
    \/ \E ok \in BOOLEAN : HandlerDone("c1", ok)
    \/ AckReturn("c1")
    \/ BackoffDone("c1")
    \/ Cancel("c1")
    \/ Tick
    \/ \E T \in LoopTypes : ClaimList("c2", T)
    \/ ClaimExec("c2")

RecoverSpec == Init /\ [][RecoverNext]_vars

\* The application from startup to shutdown: the groups are created at the
\* broker, the consumer is built and started, events are published and
\* processed, and at some point the shutdown begins.  The event loop runs
\* every ready task, reads return after block_ms at the latest, handlers and
\* XACK return, sleeps end, the pool closes.
AppNext ==
    \/ \E T \in Types : AppCreateGroup(T)
    \/ AppStartConsumers
    \/ AppNoConsumers
    \/ AppStartAll
    \/ \E T \in Types : Publish(T)
    \/ TaskStart(AppGroup)
    \/ ReadReturn(AppGroup)
    \/ \E ok \in BOOLEAN : HandlerDone(AppGroup, ok)
    \/ AckReturn(AppGroup)
    \/ BackoffDone(AppGroup)
    \/ AppShutdown
    \/ GatherCancelled
    \/ AppAwaitDone
    \/ ClosePool

AppSpec ==
    /\ Init
    /\ [][AppNext]_vars
    /\ WF_vars(TaskStart(AppGroup))
    /\ WF_vars(ReadReturn(AppGroup))
    /\ WF_vars(\E ok \in BOOLEAN : HandlerDone(AppGroup, ok))
    /\ WF_vars(AckReturn(AppGroup))
    /\ WF_vars(BackoffDone(AppGroup))
    /\ WF_vars(GatherCancelled)
    /\ WF_vars(AppAwaitDone)
    /\ WF_vars(ClosePool)

\* One consumer whose consume() is called with any list of event types, and
\* on which handlers are registered before and while the loop runs.  The
\* event loop runs the task whenever it is ready: reads return, handlers and
\* XACK return, sleeps end.
LateNext ==
    \/ \E T \in Types : RegisterHandler("c1", T)
    \/ \E T \in Types : RegisterLate("c1", T)
    \/ \E T \in Types : CreateGroupAtStartup(T, TRUE)
    \/ \E T \in Types : Publish(T)
    \/ \E ets \in SUBSET Types \ {{}} : Consume("c1", ets)
    \/ ReadReturn("c1")
    \/ \E ok \in BOOLEAN : HandlerDone("c1", ok)
    \/ AckReturn("c1")
    \/ BackoffDone("c1")

LateSpec ==
    /\ Init
    /\ [][LateNext]_vars
    /\ WF_vars(ReadReturn("c1"))
    /\ WF_vars(\E ok \in BOOLEAN : HandlerDone("c1", ok))
    /\ WF_vars(AckReturn("c1"))
    /\ WF_vars(BackoffDone("c1"))

\* One consumer that reads and processes, and a second consumer of the group
\* on which get_pending_messages and claim_pending_messages are called at
\* any time, with broker calls that succeed or fail.
PendingNext ==
    \/ \E T \in LoopTypes : RegisterHandler("c1", T)
    \/ \E T \in LoopTypes : CreateGroupAtStartup(T, TRUE)
    \/ \E T \in LoopTypes : Publish(T)
    \/ Consume("c1", LoopTypes)
    \/ ReadReturn("c1")
    \/ \E ok \in BOOLEAN : HandlerDone("c1", ok)
    \/ AckReturn("c1")
    \/ BackoffDone("c1")
    \/ Tick
    \/ \E T \in LoopTypes : GetPending("c2", T)
    \/ \E T \in LoopTypes : ClaimList("c2", T)
    \/ ClaimExec("c2")
    \/ ClaimFail("c2")

PendingSpec == Init /\ [][PendingNext]_vars

\* get_stream_info called at any time, with every reply of the broker, while
\* groups are created, events are published and one consumer reads them.
InfoNext ==
    \/ \E T \in LoopTypes : RegisterHandler("c1", T)
    \/ \E T \in LoopTypes, fromStart \in BOOLEAN : CreateGroupAtStartup(T, fromStart)
    \/ \E T \in LoopTypes : Publish(T)
    \/ \E ets \in SUBSET LoopTypes \ {{}} : Consume("c1", ets)
    \/ ReadReturn("c1")
    \/ \E ok \in BOOLEAN : HandlerDone("c1", ok)
    \/ AckReturn("c1")
    \/ BackoffDone("c1")
    \/ \E T \in Types : GetStreamInfo(T)

InfoSpec == Init /\ [][InfoNext]_vars

\* One field of a record: serialized by the publisher or written by another
\* producer, then decoded by the consumer.
CodecNext ==
    \/ \E name \in EventFieldNames : \E val \in FieldValues(name) : SerializeField(name, val)
    \/ \E name \in WireFieldNames, raw \in RawTexts : WireField(name, raw)
    \/ DeserializeField

CodecSpec == Init /\ [][CodecNext]_vars

\* One EventConsumer with up to two groups: groups are created, handlers
\* registered, the groups exist at the broker, start_all runs the loops,
\* stop_all stops them, the task of the first group may be cancelled.  The
\* event loop runs every scheduled task, reads return after block_ms at the
\* latest, handlers and XACK return, sleeps end, gather notices finished tasks.
ConsumerNext ==
    \/ \E c \in Consumers : CreateGroup(c)
    \/ \E c \in Consumers : RegisterOn(c, OwnType(c))
    \/ \E T \in Types, fromStart \in BOOLEAN : CreateGroupAtStartup(T, fromStart)
    \/ \E T \in Types : Publish(T)
    \/ StartAllGroups
    \/ \E c \in Consumers : TaskStart(c)
    \/ \E c \in Consumers : ReadReturn(c)
    \/ \E c \in Consumers, ok \in BOOLEAN : HandlerDone(c, ok)
    \/ \E c \in Consumers : AckReturn(c)
    \/ \E c \in Consumers : BackoffDone(c)
    \/ Cancel("c1")
    \/ StopAll
    \/ GatherDone

ConsumerSpec ==
    /\ Init
    /\ [][ConsumerNext]_vars
    /\ \A c \in Consumers :
          /\ WF_vars(TaskStart(c))
          /\ WF_vars(ReadReturn(c))
          /\ WF_vars(\E ok \in BOOLEAN : HandlerDone(c, ok))
          /\ WF_vars(AckReturn(c))
          /\ WF_vars(BackoffDone(c))
    /\ WF_vars(GatherDone)

\* The same EventConsumer, but nothing is assumed about the first group: its
\* task may never be run, its handler may never return, it may be cancelled.
\* Only the second group's task is run by the event loop whenever it is ready.
SiblingNext ==
    \/ \E c \in Consumers : CreateGroup(c)
    \/ \E c \in Consumers : RegisterOn(c, OwnType(c))
    \/ \E T \in Types : CreateGroupAtStartup(T, TRUE)
    \/ \E T \in Types : Publish(T)
    \/ StartAllGroups
    \/ \E c \in Consumers : TaskStart(c)
    \/ \E c \in Consumers : ReadReturn(c)
    \/ \E c \in Consumers, ok \in BOOLEAN : HandlerDone(c, ok)
    \/ \E c \in Consumers : AckReturn(c)
    \/ \E c \in Consumers : BackoffDone(c)
    \/ Cancel("c1")
    \/ GatherDone

SiblingSpec ==
    /\ Init
    /\ [][SiblingNext]_vars
    /\ WF_vars(TaskStart("c2"))
    /\ WF_vars(ReadReturn("c2"))
    /\ WF_vars(\E ok \in BOOLEAN : HandlerDone("c2", ok))
    /\ WF_vars(AckReturn("c2"))
    /\ WF_vars(BackoffDone("c2"))

\* One publisher and one publish_batch call, on either interpreter.
PubInit == pyFormat \in {"value", "name"} /\ Setup

PubNext ==
    \/ \E events \in BatchInputs : PublishBatch(events)
    \/ PublishOk
    \/ PublishRaise

PubSpec == PubInit /\ [][PubNext]_vars

\* ---------------------------------------------------------------- properties
\* the handlers registered on c for the event type the record of m carries
RegisteredFor(c, m) ==
    IF EntryOf(m).tag \in Types THEN handlers[c][EntryOf(m).tag] ELSE <<>>

\* the handlers the loop of c has invoked (resp. seen finish) for m, in order
EventsOf(c, kind, m) ==
    LET evs == SelectSeq(log[c], LAMBDA e : e[1] = kind /\ e[2] = m)
    IN [i \in 1..Len(evs) |-> evs[i][3]]
Calls(c, m) == EventsOf(c, "call", m)
Dones(c, m) == EventsOf(c, "done", m)
HasEv(c, kind, m) == <<kind, m, 0>> \in Range(log[c])
At(c, e) == CHOOSE i \in 1..Len(log[c]) : log[c][i] = e
Pos(c, m) == CHOOSE j \in 1..Len(batch[c]) : batch[c][j] = m
Current(c) == batch[c][idx[c]]
Owners(m) == {c \in Consumers : m \in pel[c]}

\* _process_message has returned for position j of the last batch of c: the
\* message was acknowledged after all its handlers were invoked and had
\* finished, or its type could not be resolved
Processed(c, j) ==
    LET m == batch[c][j]
    IN \/ HasEv(c, "fail", m)
       \/ /\ HasEv(c, "ack", m)
          /\ Calls(c, m) = RegisteredFor(c, m)
          /\ Dones(c, m) = RegisteredFor(c, m)

\* C1 (LiveSpec): an event published to stream(T) while the group exists on
\* it and not yet delivered, with c1 consuming T and holding a handler for T,
\* is eventually passed to every handler c1 registered for T.
Owed(m) ==
    /\ m \in Appended
    /\ EntryOf(m).tag = StreamOf(m)
    /\ cursor[ConsumerStream(StreamOf(m))] # NoGroup
    /\ m > cursor[ConsumerStream(StreamOf(m))]
    /\ pc["c1"] # "new"
    /\ StreamOf(m) \in subs["c1"]
    /\ handlers["c1"][StreamOf(m)] # <<>>
Handled(m) == m \in Range(batch["c1"]) /\ Calls("c1", m) = RegisteredFor("c1", m)
C1_AtLeastOnce == \A m \in Ids : Owed(m) ~> Handled(m)

\* C2 (Spec): XACK is issued for a message only when every handler
\* registered for its event type has been invoked for this delivery and has
\* finished; every acknowledgment in the log comes after those calls.
C2_AckAfterHandlers ==
    \A c \in Consumers :
        /\ pc[c] = "ack" =>
              /\ Calls(c, Current(c)) = RegisteredFor(c, Current(c))
              /\ Dones(c, Current(c)) = RegisteredFor(c, Current(c))
        /\ \A m \in Range(batch[c]) :
              HasEv(c, "ack", m) =>
                  /\ Dones(c, m) = RegisteredFor(c, m)
                  /\ \A i \in 1..Len(RegisteredFor(c, m)) :
                        At(c, <<"done", m, RegisteredFor(c, m)[i]>>) < At(c, <<"ack", m, 0>>)
C2_Witness ==
    /\ Len(handlers["c1"]["T1"]) = 2
    /\ \E m \in Range(batch["c1"]) :
          HasEv("c1", "ack", m) /\ Calls("c1", m) = handlers["c1"]["T1"]

\* C3 (Spec): a handler that raises does not end the processing of its
\* message: the next registered handler is invoked, after the last one the
\* XACK of the same message is issued, and consume() neither leaves nor
\* backs off.
C3_HandlerIsolation ==
    /\ [][\A c \in Consumers :
            HandlerDone(c, FALSE) =>
                /\ idx'[c] = idx[c]
                /\ batch'[c] = batch[c]
                /\ IF hidx[c] < Len(RegisteredFor(c, Current(c)))
                   THEN pc'[c] = "handle" /\ hidx'[c] = hidx[c] + 1
                   ELSE pc'[c] = "ack"]_vars
    /\ [](\A c \in Consumers :
            (pc[c] = "ack" /\ errs[c] # {}) =>
                Calls(c, Current(c)) = RegisteredFor(c, Current(c)))
C3_Witness ==
    /\ pc["c1"] = "ack"
    /\ errs["c1"] = {1}
    /\ Calls("c1", Current("c1")) = <<1, 2>>
    /\ Dones("c1", Current("c1")) = <<1, 2>>

C5_ClaimRedelivers ==
    \A c \in Consumers : \A d \in Consumers \ {c} : \A m \in Ids :
        ( /\ cancelled[d]
          /\ m \in Range(batch[d])
          /\ m \in pel[c]
          /\ dcount[m] > 1
          /\ RegisteredFor(c, m) # <<>>
          /\ pc[c] = "blocked" )
        => m \in Range(ReadReply(c))

\* C6 (GroupSpec): a message delivered and not acknowledged is pending for
\* exactly one consumer, an acknowledged or undelivered one for none; no
\* message is carried by two group-read replies; the owner changes only by
\* XCLAIM; every XCLAIM raises the delivery count of what it claims by one.
C6_PendingEntries ==
    /\ [](\A m \in Ids :
            /\ reads[m] <= 1
            /\ (reads[m] > 0 /\ m \notin acked) => Cardinality(Owners(m)) = 1
            /\ (reads[m] = 0 \/ m \in acked) => Owners(m) = {})
    /\ [][\A m \in Ids :
            /\ (Owners(m) # {} /\ Owners(m)' # {} /\ Owners(m)' # Owners(m)) =>
                  \E d \in Consumers : ClaimExec(d) /\ Owners(m)' = {d}
            /\ \A d \in Consumers :
                  (ClaimExec(d) /\ m \in Claimable(claimIds[d])) =>
                      /\ dcount'[m] = dcount[m] + 1
                      /\ Owners(m)' = {d}
            /\ (dcount'[m] # dcount[m]) =>
                  \/ reads'[m] = reads[m] + 1 /\ dcount'[m] = 1
                  \/ m \in acked' /\ m \notin acked
                  \/ \E d \in Consumers : ClaimExec(d) /\ m \in Claimable(claimIds[d])]_vars
C6_Witness ==
    \E m \in Ids :
        /\ dcount[m] = 2
        /\ Owners(m) = {"c1"}
        /\ m \in Range(batch["c2"])
        /\ pc["c2"] = "ack"

C8_AllHandlersInOrder ==
    \A c \in Consumers : \A m \in Range(batch[c]) :
        ( /\ EntryOf(m).tag \in Types
          /\ \/ HasEv(c, "fail", m)
             \/ HasEv(c, "ack", m)
             \/ pc[c] = "ack" /\ Current(c) = m )
        => Calls(c, m) = RegisteredFor(c, m)

\* C9 (Spec): a failing broker call takes the loop to its pause and from
\* there back to the read; consume() has ended only if stop() was called or
\* the task was cancelled.
C9_NoExitOnBrokerError ==
    /\ [](\A c \in Consumers :
            /\ pc[c] = "stopped" => (stopCalled[c] /\ ~running[c]) \/ cancelled[c]
            /\ pc[c] = "raised" => cancelled[c])
    /\ [][\A c \in Consumers :
            /\ BrokerFail(c) => pc'[c] = "backoff"
            /\ (pc[c] = "backoff" /\ pc'[c] # "backoff") =>
                  \/ pc'[c] = "blocked" /\ running[c]
                  \/ pc'[c] = "stopped" /\ stopCalled[c]
                  \/ pc'[c] = "raised" /\ cancelled'[c]]_vars
C9_Witness ==
    /\ pc["c1"] = "blocked"
    /\ \E m \in Range(batch["c1"]) : HasEv("c1", "abort", m) /\ m \in pel["c1"]
    /\ ~stopCalled["c1"]

C11_StopTerminates ==
    \A c \in Consumers :
        (~running[c] /\ pc[c] \in {"blocked", "handle", "ack", "backoff"})
            ~> (pc[c] = "stopped")
C11_Witness ==
    /\ pc["c1"] = "stopped"
    /\ stopCalled["c1"]
    /\ stopIdx["c1"] = 1
    /\ Len(batch["c1"]) = 2
    /\ Processed("c1", 2)

\* C12, as claimed (StopSpec): after a stop() issued while the consume task
\* is scheduled and has not run, the task's first step ends consume()
\* without issuing a group read.
C12_StopNeverLost ==
    [][\A c \in Consumers :
          (pc[c] = "scheduled" /\ stopCalled[c]) => pc'[c] \in {"scheduled", "stopped"}]_vars

\* C13, as claimed (Spec): when _process_message has returned for a
\* delivered message whose record carries a valid event type for which the
\* group has no handler, no handler was invoked for it and its XACK is
\* issued; once the XACK has returned the message is not pending.
C13_NoHandlerAcked ==
    \A c \in Consumers : \A m \in Range(batch[c]) :
        (EntryOf(m).tag \in Types /\ RegisteredFor(c, m) = <<>>) =>
            /\ Calls(c, m) = <<>>
            /\ ~HasEv(c, "fail", m)
            /\ HasEv(c, "ack", m) => m \notin Pending

\* C14, as claimed (GroupSpec): a call of claim_pending_messages(T) that
\* finds no pending entry of stream(T) idle for longer than min_idle_ms
\* returns without XCLAIM, any other call passes exactly those entries to
\* XCLAIM; XCLAIM gives the entries still idle to the caller and adds one to
\* their delivery count, leaves owner and delivery count of every other
\* entry alone, and the call returns the number of entries it reassigned.
C14_ClaimsIdleEntries ==
    [][\A c \in Consumers :
          /\ \A T \in Types :
                ClaimList(c, T) =>
                    IF OldMessages(T) = {}
                    THEN claimPc'[c] = "idle"
                    ELSE claimPc'[c] = "xclaim" /\ claimIds'[c] = OldMessages(T)
          /\ ClaimExec(c) =>
                /\ \A m \in Ids :
                      IF m \in claimIds[c] /\ m \in Pending /\ stale[m]
                      THEN Owners(m)' = {c} /\ dcount'[m] = dcount[m] + 1
                      ELSE Owners(m)' = Owners(m) /\ dcount'[m] = dcount[m]
                /\ ClaimReturn(c) =
                      Cardinality({m \in Ids : dcount'[m] = dcount[m] + 1})]_vars

\* C15, as claimed (GroupSpec): claim_pending_messages neither passes an
\* entry the calling consumer already owns to XCLAIM nor alters its delivery
\* count or idle time.
C15_ClaimsOthersOnly ==
    [][\A c \in Consumers :
          /\ claimIds'[c] \cap pel[c] \subseteq claimIds[c]
          /\ ClaimExec(c) =>
                \A m \in pel[c] : dcount'[m] = dcount[m] /\ stale'[m] = stale[m]]_vars

\* the entry ids of the entries that carry the event of input position i
IdsOfEvent(i) == {e.id : e \in {x \in Entries : x.event = i}}

\* C16, as claimed (PubSpec): a successful publish() appends one entry to
\* the stream "{prefix}:{T}" of the event's type T and to no other stream
\* and returns its id; every entry of that stream carries event_type T; and
\* publisher, group creation and consumer derive one stream name for T.
C16_OneStreamPerType ==
    /\ [][PublishOk =>
            LET n == GetStreamName(pubIn[NextEvent].type)
            IN /\ Len(stream'[n]) = Len(stream[n]) + 1
               /\ stream'[n][Len(stream'[n])].id = pubIds'[Len(pubIds')]
               /\ \A o \in StreamNames \ {n} : stream'[o] = stream[o]]_vars
    /\ [](\A T \in Types : \A e \in Range(stream[GetStreamName(T)]) : e.tag = T)
    /\ [](\A T \in Types : \A r \in Reps :
            /\ GetStreamName(FormatType(r, T)) = ConsumerStream(T)
            /\ GroupStream(T) = ConsumerStream(T))

\* C17 (Spec): the entry ids of a stream increase strictly in append order,
\* and the handler calls a consumer makes for messages of one stream are made
\* in that order: no call for an earlier entry follows a call for a later one.
C17_PerStreamOrder ==
    /\ \A n \in StreamNames : \A i, j \in 1..Len(stream[n]) :
           i < j => stream[n][i].id < stream[n][j].id
    /\ \A c \in Consumers : \A i, j \in 1..Len(log[c]) :
           (/\ i < j
            /\ log[c][i][1] = "call"
            /\ log[c][j][1] = "call"
            /\ StreamOf(log[c][i][2]) = StreamOf(log[c][j][2]))
           => log[c][i][2] <= log[c][j][2]
C17_Witness ==
    /\ Len(stream[ConsumerStream("T1")]) = 2
    /\ \E i, j \in 1..Len(log["c1"]) :
           /\ i < j
           /\ log["c1"][i] = <<"call", stream[ConsumerStream("T1")][1].id, 1>>
           /\ log["c1"][j] = <<"call", stream[ConsumerStream("T1")][2].id, 1>>

\* C18 (PubSpec): a failing append makes publish() raise at once: the
\* exception leaves publish_batch, no entry id is added, no stream changes,
\* and exactly one XADD was issued for the event that failed and none after.
C18_PublishRaises ==
    /\ [][PublishRaise =>
            /\ pubPc' = "raised"
            /\ stream' = stream
            /\ pubIds' = pubIds
            /\ xadds' = xadds + 1]_vars
    /\ [](pubPc = "raised" =>
            /\ xadds = Len(pubIds) + 1
            /\ Appended = Range(pubIds))
    /\ [][pubPc = "raised" => (stream' = stream /\ xadds' = xadds)]_vars
C18_Witness ==
    /\ pubPc = "raised"
    /\ Len(pubIds) = 2
    /\ Len(pubIn) = 3

\* C19, as claimed (PubSpec): when publish_batch has returned, the i-th id
\* of its result is the id of the entry appended for the i-th input event,
\* and the entries were appended in input order.
C19_BatchOrder ==
    pubPc = "returned" =>
        /\ Len(pubIds) = Len(pubIn)
        /\ \A i \in 1..Len(pubIn) : IdsOfEvent(i) = {pubIds[i]}
        /\ \A i, j \in 1..Len(pubIn) : i < j => pubIds[i] < pubIds[j]

\* C20, as claimed (PubSpec): when publish_batch has raised because the
\* publish of the k-th input event failed, exactly the events before
\* position k of the input list have been appended.
C20_BatchPrefix ==
    pubPc = "raised" =>
        {i \in 1..Len(pubIn) : IdsOfEvent(i) # {}} = 1..(NextEvent - 1)

\* C21 (CreateSpec): create_consumer_group on a stream that already has the group
\* returns True without raising and leaves the cursor, the pending entries
\* and the stream's entries as they were; every other error is raised.
C21_CreateIdempotent ==
    /\ [][\A T \in Types :
            (/\ cursor[GroupStream(T)] # NoGroup
             /\ \E fromStart \in BOOLEAN : CreateConsumerGroup(T, fromStart))
            => /\ xgroup'.reply = "BUSYGROUP" => xgroup'.ret = "true"
               /\ cursor' = cursor
               /\ pel' = pel
               /\ stream' = stream]_vars
    /\ [](xgroup.reply = "BUSYGROUP" => xgroup.ret = "true")
    /\ [](xgroup.reply = "ERR" => xgroup.ret = "raised")
C21_Witness ==
    /\ xgroup = [reply |-> "BUSYGROUP", ret |-> "true"]
    /\ cursor[GroupStream("T1")] = 1
    /\ Len(stream[GroupStream("T1")]) = 2
    /\ pel["c1"] # {}

\* the last read-loop iteration of c is over: it was not cancelled and no
\* broker call of it failed
IterationDone(c) ==
    /\ pc[c] \in {"blocked", "stopped"}
    /\ ~cancelled[c]
    /\ batch[c] # <<>>
    /\ \A i \in 1..Len(log[c]) : log[c][i][1] # "abort"

\* C22, as claimed (Spec): after a read-loop iteration that received a
\* published event of a type with exactly one registered handler, that handler
\* has been called exactly once with the event and the message is not pending.
C22_PublishConsumeOnce ==
    \A m \in Range(batch["c1"]) :
        (/\ IterationDone("c1")
         /\ EntryOf(m).tag \in Types
         /\ Len(RegisteredFor("c1", m)) = 1)
        => /\ Calls("c1", m) = RegisteredFor("c1", m)
           /\ m \notin Pending

\* a float or int text and the text of the same number
NumText(text) == IF text \in IntTexts THEN text \o ".0" ELSE text

\* two values are the same up to string and number formatting: a number, a
\* bool, a container or an enum member may come back as its text, an int as
\* a float; an unset value is only the same as an unset value
SameUpToFormat(a, b) ==
    \/ a = b
    \/ /\ a.t \in {"int", "float", "str"}
       /\ b.t \in {"int", "float", "str"}
       /\ NumText(a.v) = NumText(b.v)
    \/ a.t \in {"enum", "json", "bool", "time"} /\ b = PyStr(a.v)

\* C23, as claimed (CodecSpec): a field serialized by the publisher and
\* decoded by the consumer is found under its name and has the value it had
\* in the event, up to string and number formatting.
C23_RoundTrip ==
    (codec.pc = "decoded" /\ codec.src = "publisher") =>
        /\ codec.key = [rep |-> "str", name |-> codec.name]
        /\ SameUpToFormat(codec.value, codec.out)

\* the texts that equal "true" when case is ignored
TrueSpellings == {"true", "True", "TRUE"}

\* C24, as claimed (CodecSpec): names of the JSON list are JSON-decoded or
\* kept raw, names of the float list become floats, names of the integer
\* list integers, names of the boolean list true exactly for "true" in any
\* case, and every other key passes through as its string.
C24_DecodingTable ==
    codec.pc = "decoded" =>
        /\ InList(codec.key, JsonFields) =>
              codec.out = OrRaw(JsonLoads(codec.raw), codec.raw)
        /\ InList(codec.key, FloatFields) => codec.out.t = "float"
        /\ InList(codec.key, IntFields) => codec.out.t = "int"
        /\ InList(codec.key, BoolFields) => codec.out = PyBool(codec.raw \in TrueSpellings)
        /\ ~InList(codec.key, JsonFields \cup FloatFields \cup IntFields \cup BoolFields)
              => codec.out = PyStr(codec.raw)

\* C24, amended (CodecSpec): as above, but names of the timestamp list are
\* parsed as ISO timestamps, and a float, integer or timestamp text that does
\* not parse is kept as the raw string, like a JSON text that does not decode.
C24_DecodingTableWithFallback ==
    codec.pc = "decoded" =>
        /\ InList(codec.key, JsonFields) =>
              codec.out = OrRaw(JsonLoads(codec.raw), codec.raw)
        /\ InList(codec.key, TimeFields) =>
              codec.out = (IF codec.raw \in IsoTexts THEN PyTime(codec.raw)
                           ELSE PyStr(codec.raw))
        /\ InList(codec.key, FloatFields) =>
              codec.out = (IF codec.raw \in FloatTexts \cup IntTexts \cup {"nan"}
                           THEN PyFloat(NumText(codec.raw)) ELSE PyStr(codec.raw))
        /\ InList(codec.key, IntFields) =>
              codec.out = (IF codec.raw \in IntTexts THEN PyInt(codec.raw)
                           ELSE PyStr(codec.raw))
        /\ InList(codec.key, BoolFields) => codec.out = PyBool(codec.raw \in TrueSpellings)
        /\ ~InList(codec.key, JsonFields \cup TimeFields \cup FloatFields \cup IntFields
                                 \cup BoolFields)
              => codec.out = PyStr(codec.raw)
C24_Witness ==
    /\ codec.pc = "decoded"
    /\ codec.key = [rep |-> "str", name |-> "ignition"]
    /\ codec.raw = "TRUE"
    /\ codec.out = PyBool(TRUE)

\* C25 (ConsumerSpec): start_all creates a task for exactly the groups with
\* a registered handler type and subscribes each to exactly its registered
\* types; a group without handlers never gets a task and never reads; when
\* no group qualifies start_all has returned at once.
C25_StartAllSelects ==
    /\ [][(ec.pc = "idle" /\ ec'.pc # "idle") =>
            /\ \A c \in Consumers :
                  /\ (pc'[c] = "scheduled") <=>
                         (ec.groups[c] # 0 /\ \E T \in Types : handlers[c][T] # <<>>)
                  /\ pc'[c] = "scheduled" =>
                         subs'[c] = {T \in Types : handlers[c][T] # <<>>}
            /\ ec'.tasks = {c \in Consumers : pc'[c] = "scheduled"}
            /\ (ec'.pc = "returned") <=> (ec'.tasks = {})]_vars
    /\ [](\A c \in Consumers :
            (\A T \in Types : handlers[c][T] = <<>>) => (pc[c] = "new" /\ batch[c] = <<>>))
C25_Witness ==
    /\ ec.pc = "gather"
    /\ ec.tasks = {"c1"}
    /\ ec.groups["c2"] # 0
    /\ pc["c1"] = "handle"
    /\ pc["c2"] = "new"

\* C26 (SiblingSpec): the end of one group's task by a failure, and the
\* failure of start_all that follows, leave the loop of the other group where
\* it is; and whatever the first group does or fails to do, the second group
\* reads the new entries of its stream and finishes every batch it received.
C26_GroupsIndependent ==
    /\ [][\A c \in Consumers : \A d \in Consumers \ {c} :
            \/ cancelled'[c] /\ ~cancelled[c]
            \/ ec'.pc = "raised" /\ ec.pc # "raised"
            => (pc'[d] = pc[d] /\ running'[d] = running[d] /\ batch'[d] = batch[d])]_vars
    /\ \A m \in Ids :
          (/\ pc["c2"] = "blocked"
           /\ cursor[ConsumerStream(OwnType("c2"))] # NoGroup
           /\ m \in Range(ReadReply("c2"))) ~> (reads[m] > 0)
    /\ (pc["c2"] \in {"handle", "ack"}) ~> (pc["c2"] \in {"blocked", "stopped"})
C26_Witness ==
    /\ cancelled["c1"]
    /\ pc["c1"] = "raised"
    /\ ec.pc = "raised"
    /\ pc["c2"] = "ack"
    /\ \E m \in Ids : HasEv("c2", "ack", m)

\* C27, as claimed (ConsumerSpec): stop_all calls stop() on every group of
\* the EventConsumer, started or not, and waits for nothing; once it has been
\* called, every started loop ends and start_all returns.
C27_StopAllStopsAll ==
    /\ [][StopAll =>
            /\ \A c \in Consumers : ec.groups[c] # 0 => (stopCalled'[c] /\ ~running'[c])
            /\ pc' = pc
            /\ ec'.pc = ec.pc]_vars
    /\ (ec.pc = "gather" /\ ec.stopAt = "gather")
          ~> (/\ ec.pc \in {"returned", "raised"}
              /\ \A c \in ec.tasks : pc[c] \in {"stopped", "raised"})

\* C28 (Spec): a cancellation that reaches the consume task while it is
\* blocked in the group read ends consume() by the break of the loop, and from
\* then on the loop reads nothing, invokes no handler and acknowledges nothing.
C28_CancelStops ==
    /\ [][\A c \in Consumers :
            (pc[c] = "blocked" /\ cancelled'[c] /\ ~cancelled[c]) => pc'[c] = "stopped"]_vars
    /\ [][\A c \in Consumers :
            cancelled[c] =>
                /\ pc'[c] = pc[c]
                /\ batch'[c] = batch[c]
                /\ log'[c] = log[c]
                /\ pel'[c] = pel[c]
                /\ reads' = reads
                /\ acked' = acked]_vars
C28_Witness ==
    /\ cancelled["c1"]
    /\ pc["c1"] = "stopped"
    /\ batch["c1"] = <<>>
    /\ running["c1"]
    /\ \A T \in subs["c1"] : cursor[ConsumerStream(T)] # NoGroup
    /\ ReadReply("c1") # <<>>

\* C29, as claimed (ConsumerSpec): an event published to the stream of a type
\* before start_all runs, for which the group has a handler, is handed to the
\* handler once the group's task runs, without the group ever being created
\* at the broker.
C29_PublishThenConsume ==
    \A m \in Ids :
        (/\ m \in Appended
         /\ EntryOf(m).tag = OwnType("c1")
         /\ handlers["c1"][OwnType("c1")] # <<>>
         /\ pc["c1"] = "scheduled"
         /\ cursor[ConsumerStream(OwnType("c1"))] = NoGroup)
        ~> (\/ Calls("c1", m) # <<>>
            \/ cursor[ConsumerStream(OwnType("c1"))] # NoGroup)

\* C30 (ConsumerSpec): create_group with a name that is already in
\* self.groups returns the object stored under it and changes neither the
\* dict nor the handlers registered on that object; every object of the dict
\* was constructed with the EventConsumer's consumer name.
C30_CreateGroupIdempotent ==
    /\ [][\A c \in Consumers :
            (ec.groups[c] # 0 /\ CreateGroup(c)) =>
                /\ ec'.ret = ec.groups[c]
                /\ ec'.groups = ec.groups
                /\ ec'.made = ec.made
                /\ handlers' = handlers]_vars
    /\ [](\A c \in Consumers : ec.groups[c] # 0 => ec.owner[c] = ConsumerName)
C30_Witness ==
    /\ ec.made = 2
    /\ ec.groups["c1"] = 1
    /\ ec.ret = 1
    /\ Len(handlers["c1"]["T1"]) = 2
    /\ pc["c1"] = "blocked"

\* C31 (InfoSpec): a get_stream_info call changes no stream, group cursor or
\* pending entry and never raises; when the broker answered it returns the
\* stream's length, first entry, last entry and number of groups, and when
\* the broker call failed it returns the error payload.
C31_StreamInfoReadOnly ==
    [][\A T \in Types :
          GetStreamInfo(T) =>
             /\ UNCHANGED <<brokerVars, handlers, loopVars, claimVars>>
             /\ info'.out \in {"info", "error"}
             /\ info'.reply = "OK" <=> info'.out = "info"
             /\ info'.out = "info" =>
                   LET n == GetStreamName(T)
                   IN /\ info'.length = Cardinality({e \in Entries : e \in Range(stream[n])})
                      /\ info'.groups = IF cursor[n] = NoGroup THEN 0 ELSE 1
                      /\ \A e \in Range(stream[n]) :
                            info'.first <= e.id /\ e.id <= info'.last
                      /\ stream[n] # <<>> =>
                            {info'.first, info'.last} \subseteq {e.id : e \in Range(stream[n])}]_vars
C31_Witness ==
    /\ info.out = "info"
    /\ info.length = 2
    /\ info.first = 1
    /\ info.last = 2
    /\ info.groups = 1
    /\ pel["c1"] # {}

\* a handler of consumer c begins executing for message m in this step
Begins(c, m) ==
    /\ pc'[c] = "handle"
    /\ batch'[c][idx'[c]] = m
    /\ <<pc[c], batch[c], idx[c], hidx[c]>> # <<pc'[c], batch'[c], idx'[c], hidx'[c]>>

\* C32 (RaceSpec): once a message has been acknowledged, no handler of any
\* consumer of the group begins executing for it, whatever the interleaving
\* of the two read loops, of claim_pending_messages and of the
\* acknowledgments.
C32_NoHandlerAfterAck ==
    [][\A c \in Consumers, m \in acked : ~Begins(c, m)]_vars
C32_Witness ==
    \E m \in acked :
        /\ m \in pend.rows
        /\ HasEv("c1", "ack", m)
        /\ Len(Calls("c1", m)) = 2
        /\ handlers["c2"]["T1"] # <<>>
        /\ pc["c2"] = "blocked"

\* the events the loop of c has logged for message m in its current iteration
Touched(c, m) == \E e \in Range(log[c]) : e[2] = m

\* C33 (Spec): when XACK fails for message N of a batch, the loop goes to its
\* pause with nothing acknowledged; N and the later messages of the batch
\* stay pending for the consumer, and the later ones are neither dispatched
\* nor acknowledged in that iteration; after the pause a loop that was
\* neither stopped nor cancelled issues the next group read.
C33_AckFailureAbandonsBatch ==
    /\ [](\A c \in Consumers, N \in Ids :
            HasEv(c, "abort", N) =>
               /\ N \in pel[c] /\ N \notin acked
               /\ \A j \in (Pos(c, N) + 1)..Len(batch[c]) :
                     /\ ~Touched(c, batch[c][j])
                     /\ batch[c][j] \in pel[c]
                     /\ batch[c][j] \notin acked)
    /\ [][\A c \in Consumers :
            /\ (pc[c] = "ack" /\ BrokerFail(c)) =>
                  /\ pc'[c] = "backoff"
                  /\ <<"abort", Current(c), 0>> \in Range(log'[c])
                  /\ UNCHANGED <<pel, acked, reads>>
            /\ (pc[c] = "backoff" /\ pc'[c] # "backoff" /\ running[c] /\ ~cancelled'[c]) =>
                  pc'[c] = "blocked"]_vars
C33_Witness ==
    /\ pc["c1"] = "backoff"
    /\ Len(batch["c1"]) = 2
    /\ HasEv("c1", "abort", batch["c1"][1])
    /\ Len(Calls("c1", batch["c1"][1])) = 2
    /\ running["c1"]

\* the task of c was cancelled while a handler it had called for m was
\* suspended: the call is logged, its end is not
Interrupted(c, m) == cancelled[c] /\ Len(Calls(c, m)) > Len(Dones(c, m))

\* C34 (RecoverSpec): a message whose handler was interrupted by the
\* cancellation of the task is never acknowledged by that loop; consume() has
\* ended, the entry stays in the group's pending list, and an XCLAIM that
\* names it hands it to the claiming consumer.
C34_CancelledStaysPending ==
    /\ [](\A m \in Ids :
            Interrupted("c1", m) =>
               /\ m \notin acked
               /\ ~HasEv("c1", "ack", m)
               /\ m \in Pending
               /\ pc["c1"] = "stopped")
    /\ [][\A m \in Ids :
            /\ (pc["c1"] = "handle" /\ Cancel("c1") /\ m = Current("c1")) =>
                  Interrupted("c1", m)' /\ UNCHANGED <<pel, acked>>
            /\ (Interrupted("c1", m) /\ m \in Claimable(claimIds["c2"]) /\ ClaimExec("c2")) =>
                  m \in pel'["c2"]]_vars
C34_Witness ==
    \E m \in Ids :
        /\ Interrupted("c1", m)
        /\ Len(Dones("c1", m)) = 1
        /\ pend.rows = {m}
        /\ m \in pel["c2"]

\* C35 (Spec): a consume task cancelled at any of its suspension points --
\* the blocking read, a handler call, the XACK, the pause after an error --
\* ends by returning normally.
C35_CancelAbsorbed ==
    \A c \in Consumers : cancelled[c] => pc[c] = "stopped"

\* the start_all task and every consume task it created have ended
ConsumersEnded ==
    /\ ec.pc \in {"idle", "returned", "raised", "cancelled"}
    /\ \A c \in ec.tasks : pc[c] \in {"stopped", "raised"}

\* C36 (AppSpec): at shutdown stop_all() is called before the consumer task
\* is cancelled, the await of the task ends only when the task and its
\* consume tasks have ended, the connection pool is closed only after that,
\* and a shutdown that has begun completes.
C36_ShutdownOrder ==
    /\ [](/\ app.calls \in {<<>>, <<"stop_all", "cancel">>, <<"close_pool">>,
                             <<"stop_all", "cancel", "close_pool">>}
          /\ app.pc \in {"closing", "complete"} => ConsumersEnded
          /\ app.pool = "closed" => ConsumersEnded /\ app.pc = "complete"
          /\ (app.pc \in {"awaiting", "closing", "complete"} /\ GroupKnown(AppGroup)) =>
                 /\ ~running[AppGroup]
                 /\ app.calls[1] = "stop_all")
    /\ (app.pc = "awaiting") ~> (app.pc = "complete" /\ app.pool = "closed")
C36_Witness ==
    /\ app.pc = "complete"
    /\ app.calls = <<"stop_all", "cancel", "close_pool">>
    /\ ec.stopAt = "gather"
    /\ ec.pc = "cancelled"
    /\ cancelled[AppGroup]
    /\ pc[AppGroup] = "stopped"
    /\ \E m \in Ids : Interrupted(AppGroup, m)

\* C37 (AppSpec): the read loop of the application's group is started only
\* when the group exists on every stream the loop subscribes to, and it is
\* never blocked in a group read on a stream without the group.
C37_GroupBeforeLoop ==
    \A c \in ec.tasks :
        pc[c] \in {"scheduled", "blocked"} =>
            \A T \in subs[c] : cursor[ConsumerStream(T)] # NoGroup

\* the group exists on every stream the loop of c reads
Subscribed(c) == \A U \in subs[c] : cursor[ConsumerStream(U)] # NoGroup

\* C38 (LateSpec): the streams a running loop reads are those fixed when
\* consume() started; the loop never changes the handler registry; no
\* handler is called for an event of a type outside the subscription; and a
\* handler registered for a subscribed type, also while the loop runs, is
\* called for every event of that type delivered afterwards.
C38_SubscriptionFixed ==
    /\ [][\A c \in Consumers :
            /\ pc[c] # "new" => subs'[c] = subs[c]
            /\ handlers'[c] # handlers[c] =>
                  \E T \in Types : RegisterHandler(c, T) \/ RegisterLate(c, T)]_vars
    /\ [](\A c \in Consumers, m \in Ids :
            Calls(c, m) # <<>> => EntryOf(m).tag \in subs[c])
    /\ \A m \in Ids, h \in 1..MaxHandlers, T \in Types :
          (/\ pc["c1"] # "new"
           /\ T \in subs["c1"]
           /\ Subscribed("c1")
           /\ h \in Range(handlers["c1"][T])
           /\ m \in Appended
           /\ EntryOf(m).tag = T
           /\ m > cursor[ConsumerStream(T)])
             ~> (<<"call", m, h>> \in Range(log["c1"]))

C40_DefaultResolvesType ==
    ~decodeResponses =>
        \A c \in Consumers : \A m \in Range(batch[c]) :
            EntryOf(m).tag \in Types =>
                /\ DeserializeType(m) = EntryOf(m).tag
                /\ ~HasEv(c, "fail", m)
====
